---- MODULE Spec2Model ----
(***************************************************************************)
(* A model of panda-rs: the PPP export site generated by                   *)
(* export_ppp_callback!, the PppCallback closure handles, the Callback     *)
(* closure registry, and the syscall injection engine.                     *)
(*                                                                         *)
(* Host code, the emulator and the callbacks it invokes run on one thread, *)
(* so each subsystem is modelled by a call stack of frames; a frame whose  *)
(* next step is the acquisition of a mutex that a frame below it holds can *)
(* never take that step (std::sync::Mutex is not reentrant).               *)
(***************************************************************************)
EXTENDS Integers, Sequences, FiniteSets, TLC

(***************************************************************************)
(* Bounds of the model.                                                    *)
(***************************************************************************)
MaxSubs == 3        \* longest subscriber list of the export site
MaxPppHandles == 1  \* PppCallback handles created
MaxPppClosures == 2 \* closures boxed for PppCallback installs
MaxCbHandles == 2   \* Callback slots created
MaxCbClosures == 3  \* closures boxed for Callback installs
MaxInjectors == 2   \* calls of run_injector
MaxOwn == 1         \* syscalls the guest threads go on to after their first
MaxThreadInjectors == 3 \* calls of run_injector when no injector forks
MaxForkInjectors == 3 \* calls of run_injector when the injectors fork or do nothing
GuestMemSize == 8   \* bytes of guest memory, addresses 0..GuestMemSize-1
MaxFields == 2      \* fields of a #[derive(GuestType)] struct
MaxUnmapped == 1    \* pages of guest memory that are unmapped at one time
MaxStatic == 2      \* entries the inventory holds of one collected type
MaxAfterInit == 2   \* functions queued in AFTER_INIT_FUNCS

VARIABLES
    \* ---- PPP export site (callbacks/export.rs) ----
    siteTy,          \* the declared return type of the site: "bool", "int" or "unit"
    siteCALLBACKS,   \* the subscriber list, Seq of [f, c]
    siteLock,        \* TRUE while the site's Mutex is held
    lastTrigger,     \* what the last completed trigger() saw and returned
    lastRemove,      \* what the last completed remove_callback_with_context saw and returned
    \* ---- PppCallback handles (callbacks/ppp_closures.rs) ----
    pppNextId,       \* CURRENT_CALLBACK_ID
    pppCALLBACKS,    \* handle id -> [present, closure_ref, is_enabled]
    pppLock,         \* TRUE while the handle map's Mutex is held
    pppHeap,         \* closure_ref -> "free" | "live" | "dropped"
    pppDrops,        \* closure_ref -> number of drop_fn invocations
    \* ---- the one thread running all of it ----
    stack,           \* call stack, Seq of frames, the top is the last element
    \* ---- Callback slots (callbacks/closure.rs) ----
    cbNextId,        \* CURRENT_CALLBACK_ID
    cbHandles,       \* the handles Callback::new has returned, in order, and to whom
    CALLBACKS,       \* the slot registry: a set of bindings [id, closure_ref, cb_kind]
    cbLock,          \* host thread -> "none" | "read" | "write": its hold on the RwLock
    nativeCbs,       \* the emulator's callback list: a set of [kind, ctx, enabled]
    cbHeap,          \* closure_ref -> "free" | "live" | "dropped"
    cbDrops,         \* closure_ref -> number of drop_fn invocations
    cbStack,         \* host thread -> call stack
    cbCrashed,       \* a dropped closure was called and the process died
    nativeCall,      \* the panda_*_callback_with_context call the last step made
    \* ---- syscall injection (syscall_injection.rs) ----
    thr,                     \* guest thread -> its OSI identity, registers and position
    INJECTORS,               \* ThreadId -> PinnedQueue of injector futures
    RET_SLOT,                \* ASID -> the OnceCell the next return value goes to
    WAITING_FOR_SYSCALL,
    INJECTOR_BAIL,
    SHOULD_LOOP_AGAIN,
    CURRENT_INJECTOR_THREAD, \* 0 is None
    CHILD_INJECTOR,          \* <<>> is None, else <<[regs, prog]>>
    PARENT_PID,
    FORKING_THREADS,
    CURRENT_REGS_BACKUP,     \* ThreadId -> <<>> | <<SyscallRegs>>
    LAST_INJECTED_SYSCALL,
    hooks,                   \* the sys_enter/sys_return PppCallback pairs installed so far
    nextUid,                 \* names the injector futures in the order they are queued
    runs,                    \* calls of run_injector so far
    panicked,                \* an expect() failed inside a callback
    issued,                  \* thread -> the injected syscalls its kernel entries ran
    injected,                \* thread -> the syscalls set up by syscall()/fork()
    completed,               \* the injectors the last event popped
    \* ---- guest memory codecs (guest_ptr.rs, guest_ptr/impls.rs) ----
    ARCH_ENDIAN,     \* the byte order of the guest the crate is built for
    tyFields,        \* the field types of the #[derive(GuestType)] struct in use
    gMem,            \* guest address -> byte
    gMapped,         \* the pages a memory transfer succeeds on
    gpPointer,       \* GuestPtr.pointer
    gpCache,         \* GuestPtr.guest_type: <<>> or <<value>>
    lastGuest,       \* what the last codec or GuestPtr call did and returned
    \* ---- initialisation (panda-macros/src/lib.rs, library_mode/mod.rs) ----
    libpanda,        \* the cargo feature: TRUE for a library build, FALSE for a plugin
    inventory,       \* how many entries each collected type has
    AFTER_INIT_FUNCS, \* library_mode: the functions queued by run_after_init
    LIBRARY_STARTED, \* library_mode: Panda::run is in progress
    pushing,         \* the functions whose run_after_init found libpanda not started
                     \* and has not pushed them on AFTER_INIT_FUNCS yet
    lastInit         \* what the last initialisation call did, step by step

pppVars == <<siteTy, siteCALLBACKS, siteLock, lastTrigger, lastRemove,
             pppNextId, pppCALLBACKS, pppLock, pppHeap, pppDrops, stack>>

cbVars == <<cbNextId, cbHandles, CALLBACKS, cbLock, nativeCbs, cbHeap, cbDrops, cbStack, cbCrashed,
            nativeCall>>

injVars == <<thr, INJECTORS, RET_SLOT, WAITING_FOR_SYSCALL, INJECTOR_BAIL,
             SHOULD_LOOP_AGAIN, CURRENT_INJECTOR_THREAD, CHILD_INJECTOR, PARENT_PID,
             FORKING_THREADS, CURRENT_REGS_BACKUP, LAST_INJECTED_SYSCALL, hooks,
             nextUid, runs, panicked, issued, injected, completed>>

guestVars == <<ARCH_ENDIAN, tyFields, gMem, gMapped, gpPointer, gpCache, lastGuest>>

initVars == <<libpanda, inventory, AFTER_INIT_FUNCS, LIBRARY_STARTED, pushing, lastInit>>

vars == <<pppVars, cbVars, injVars, guestVars, initVars>>

\* What the export site and the PppCallback handles never touch.
outsidePpp == <<cbVars, injVars, guestVars, initVars>>

(***************************************************************************)
(* Function pointers and contexts a subscriber is made of.  "trampoline"   *)
(* is the site's own trampoline (add_callback), "closure" the trampoline   *)
(* generated for PppCallback closures, "ext" any other function.           *)
(***************************************************************************)
HostFns == {"trampoline", "ext"}
HostCtxs == {1, 2}
ClosureBase == 10
ClosureRefs == (ClosureBase + 1)..(ClosureBase + MaxPppClosures)
PppIds == 0..(MaxPppHandles - 1)

\* The host thread that drives guest execution and so runs every callback,
\* the callback kinds closures are installed for, and the boxes they live in.
CbThreads == {1}
CbCallers == {1, 2}   \* the threads that call Callback::new
CbKinds == {"before_block_exec", "after_block_exec"}
CbRefs == 1..MaxCbClosures
CbIds == 0..(MaxCbHandles - 1)

\* What a subscriber may return: any bool, a few integers, or ().
IntRets == {0, 5, 7}
RetVals(ty) == IF ty = "bool" THEN BOOLEAN ELSE IF ty = "int" THEN IntRets ELSE {"unit"}

\* ------------------------------------------------------------------------
\* CallbackReturn (export.rs): the fold strategy of a return type.

\* __callback_fold_default!: () for a site without a return type, else
\* FoldType::default().
callback_fold_default(ty) ==
    IF ty = "bool" THEN FALSE ELSE IF ty = "int" THEN 0 ELSE "unit"

\* A fold that keeps only the last result.
fold_callback_return_bool_last(folded, ret) == ret

fold_callback_return_bool(folded, ret) == folded \/ ret

\* A fold that sums the results.
fold_callback_return_int_sum(folded, ret) == folded + ret

fold_callback_return_int(folded, ret) == IF folded # 0 THEN folded ELSE ret

\* __callback_fold_fn!: (|(), _| ()) for a site without a return type.
fold_callback_return(ty, folded, ret) ==
    IF ty = "bool" THEN fold_callback_return_bool(folded, ret)
    ELSE IF ty = "int" THEN fold_callback_return_int(folded, ret)
    ELSE "unit"

\* ------------------------------------------------------------------------
\* Frames.

NoBinding == [present |-> FALSE, closure_ref |-> 0, is_enabled |-> FALSE]

Frame(op, pc, f, c, id) ==
    [op |-> op, pc |-> pc, f |-> f, c |-> c, id |-> id,
     idx |-> 0, acc |-> callback_fold_default(siteTy), calls |-> <<>>, snap |-> <<>>]

Top == stack[Len(stack)]
Pop == SubSeq(stack, 1, Len(stack) - 1)
Push(fr) == Append(stack, fr)
ReplaceTop(fr) == [stack EXCEPT ![Len(stack)] = fr]

\* lastTrigger and lastRemove hold what the call that has just returned saw;
\* the next call made by user code forgets them.
NoTrigger == [valid |-> FALSE, subs |-> <<>>, calls |-> <<>>,
              ret |-> callback_fold_default(siteTy)]
NoRemove == [valid |-> FALSE, f |-> "ext", c |-> 0, before |-> <<>>, ret |-> FALSE]
Forget == lastTrigger' = NoTrigger /\ lastRemove' = NoRemove

\* User code is running: the host between calls, or a subscriber's body.
InUserCode == IF stack = <<>> THEN TRUE ELSE Top.op = "sub" /\ Top.pc = "body"

\* The stack after user code has called `fr`: a subscriber makes one call.
CallFrom(fr) ==
    IF stack = <<>> THEN <<fr>>
    ELSE Append(ReplaceTop([Top EXCEPT !.pc = "called"]), fr)

\* A retain that compares the function pointers only.
RECURSIVE RetainByFn(_, _, _)
RetainByFn(list, f, c) ==
    IF list = <<>> THEN <<>>
    ELSE LET rest == RetainByFn(Tail(list), f, c)
         IN IF Head(list).f # f THEN <<Head(list)>> \o rest ELSE rest

\* A removal that stops at the first entry equal to (f, c).
RECURSIVE RetainAfterFirst(_, _, _)
RetainAfterFirst(list, f, c) ==
    IF list = <<>> THEN <<>>
    ELSE IF <<Head(list).f, Head(list).c>> = <<f, c>> THEN Tail(list)
         ELSE <<Head(list)>> \o RetainAfterFirst(Tail(list), f, c)

\* Vec::retain (export.rs:119-121): the entries for which keep holds, in order.
RECURSIVE Retain(_, _, _)
Retain(list, f, c) ==
    IF list = <<>> THEN <<>>
    ELSE LET rest == Retain(Tail(list), f, c)
         IN IF <<Head(list).f, Head(list).c>> # <<f, c>>
            THEN <<Head(list)>> \o rest ELSE rest

\* ------------------------------------------------------------------------
\* The export site (export.rs:53-147).

\* add_callback(cb) is add_callback_with_context(trampoline, cb) (export.rs:86-90),
\* remove_callback(cb) is remove_callback_with_context(trampoline, cb) (export.rs:104-108).
CallAdd ==
    /\ InUserCode
    /\ Len(siteCALLBACKS) < MaxSubs
    /\ \E f \in HostFns, c \in HostCtxs :
          stack' = CallFrom(Frame("add", "lock", f, c, 0))
    /\ Forget
    /\ UNCHANGED <<siteTy, siteCALLBACKS, siteLock,
                   pppNextId, pppCALLBACKS, pppLock, pppHeap, pppDrops>>
    /\ UNCHANGED outsidePpp

CallRemove ==
    /\ InUserCode
    /\ \E f \in HostFns, c \in HostCtxs :
          stack' = CallFrom(Frame("remove", "lock", f, c, 0))
    /\ Forget
    /\ UNCHANGED <<siteTy, siteCALLBACKS, siteLock,
                   pppNextId, pppCALLBACKS, pppLock, pppHeap, pppDrops>>
    /\ UNCHANGED outsidePpp

CallTrigger ==
    /\ InUserCode
    /\ stack' = CallFrom(Frame("trigger", "lock", "ext", 0, 0))
    /\ Forget
    /\ UNCHANGED <<siteTy, siteCALLBACKS, siteLock,
                   pppNextId, pppCALLBACKS, pppLock, pppHeap, pppDrops>>
    /\ UNCHANGED outsidePpp

\* CALLBACKS.lock().unwrap().push((callback, PppContextInternal(context)))
add_callback_with_context ==
    /\ stack # <<>> /\ Top.op = "add" /\ Top.pc = "lock"
    /\ ~siteLock
    /\ siteCALLBACKS' = Append(siteCALLBACKS, [f |-> Top.f, c |-> Top.c])
    /\ stack' = Pop
    /\ UNCHANGED <<siteTy, siteLock, lastTrigger, lastRemove,
                   pppNextId, pppCALLBACKS, pppLock, pppHeap, pppDrops>>
    /\ UNCHANGED outsidePpp

\* lock, retain the entries that differ from (callback, context), report
\* whether the length changed.
remove_callback_with_context ==
    /\ stack # <<>> /\ Top.op = "remove" /\ Top.pc = "lock"
    /\ ~siteLock
    /\ LET kept == Retain(siteCALLBACKS, Top.f, Top.c)
       IN /\ siteCALLBACKS' = kept
          /\ lastRemove' = [valid |-> TRUE, f |-> Top.f, c |-> Top.c,
                            before |-> siteCALLBACKS,
                            ret |-> (Len(kept) # Len(siteCALLBACKS))]
    /\ stack' = Pop
    /\ UNCHANGED <<siteTy, siteLock, lastTrigger,
                   pppNextId, pppCALLBACKS, pppLock, pppHeap, pppDrops>>
    /\ UNCHANGED outsidePpp

\* trigger: CALLBACKS.lock().unwrap() ... the guard lives until the fold ends.
TriggerLock ==
    /\ stack # <<>> /\ Top.op = "trigger" /\ Top.pc = "lock"
    /\ ~siteLock
    /\ siteLock' = TRUE
    /\ stack' = ReplaceTop([Top EXCEPT !.pc = "iter", !.idx = 1,
                                       !.acc = callback_fold_default(siteTy),
                                       !.snap = siteCALLBACKS])
    /\ UNCHANGED <<siteTy, siteCALLBACKS, lastTrigger, lastRemove,
                   pppNextId, pppCALLBACKS, pppLock, pppHeap, pppDrops>>
    /\ UNCHANGED outsidePpp

\* .iter_mut().map(|(callback, context)| callback(*context, args)): the next
\* subscriber is called with its own stored context.
TriggerInvoke ==
    /\ stack # <<>> /\ Top.op = "trigger" /\ Top.pc = "iter"
    /\ Top.idx <= Len(siteCALLBACKS)
    /\ LET e == siteCALLBACKS[Top.idx]
       IN stack' = Push(Frame("sub", "body", e.f, e.c, 0))
    /\ UNCHANGED <<siteTy, siteCALLBACKS, siteLock, lastTrigger, lastRemove,
                   pppNextId, pppCALLBACKS, pppLock, pppHeap, pppDrops>>
    /\ UNCHANGED outsidePpp

\* The subscriber returns v; .fold(default, fold_callback_return) folds it in.
SubscriberReturn ==
    /\ stack # <<>> /\ Top.op = "sub" /\ Top.pc \in {"body", "called"}
    /\ \E v \in RetVals(siteTy) :
          LET below == stack[Len(stack) - 1]
              call == [f |-> Top.f, c |-> Top.c, ret |-> v]
          IN stack' = [Pop EXCEPT ![Len(stack) - 1] =
                          [below EXCEPT !.acc = fold_callback_return(siteTy, below.acc, v),
                                        !.calls = Append(below.calls, call),
                                        !.idx = below.idx + 1]]
    /\ UNCHANGED <<siteTy, siteCALLBACKS, siteLock, lastTrigger, lastRemove,
                   pppNextId, pppCALLBACKS, pppLock, pppHeap, pppDrops>>
    /\ UNCHANGED outsidePpp

\* A trigger that stops at the first subscriber whose result changes the fold.
TriggerReturnShortCircuit ==
    /\ stack # <<>> /\ Top.op = "trigger" /\ Top.pc = "iter"
    /\ Top.idx > Len(siteCALLBACKS) \/ Top.acc # callback_fold_default(siteTy)
    /\ siteLock' = FALSE
    /\ lastTrigger' = [valid |-> TRUE, subs |-> Top.snap, calls |-> Top.calls,
                       ret |-> Top.acc]
    /\ stack' = Pop
    /\ UNCHANGED <<siteTy, siteCALLBACKS, lastRemove,
                   pppNextId, pppCALLBACKS, pppLock, pppHeap, pppDrops>>
    /\ UNCHANGED outsidePpp

\* The iterator is exhausted: the folded value is returned, the guard dropped.
TriggerReturn ==
    /\ stack # <<>> /\ Top.op = "trigger" /\ Top.pc = "iter"
    /\ Top.idx > Len(siteCALLBACKS)
    /\ siteLock' = FALSE
    /\ lastTrigger' = [valid |-> TRUE, subs |-> Top.snap, calls |-> Top.calls,
                       ret |-> Top.acc]
    /\ stack' = Pop
    /\ UNCHANGED <<siteTy, siteCALLBACKS, lastRemove,
                   pppNextId, pppCALLBACKS, pppLock, pppHeap, pppDrops>>
    /\ UNCHANGED outsidePpp

\* ------------------------------------------------------------------------
\* PppCallback (ppp_closures.rs) and the install method generated by
\* plugin_import! (plugins/mod.rs:316-380).

siteUnchanged == UNCHANGED <<siteTy, siteCALLBACKS, siteLock, lastTrigger, lastRemove>>

\* PppCallback::new: CURRENT_CALLBACK_ID.fetch_add(1)
PppNew ==
    /\ InUserCode
    /\ pppNextId < MaxPppHandles
    /\ pppNextId' = pppNextId + 1
    /\ UNCHANGED <<pppCALLBACKS, pppLock, pppHeap, pppDrops, stack>>
    /\ Forget /\ UNCHANGED <<siteTy, siteCALLBACKS, siteLock>>
    /\ UNCHANGED outsidePpp

\* <handle>.<cb_fn_name>(closure): the closure is double-boxed, and
\* Panda::run_after_init runs __internal_install_ppp_closure_callback.
CallPppInstall ==
    /\ InUserCode
    /\ \E id \in 0..(pppNextId - 1), r \in ClosureRefs :
          /\ pppHeap[r] = "free"
          /\ \A q \in ClosureRefs : q < r => pppHeap[q] # "free"
          /\ pppHeap' = [pppHeap EXCEPT ![r] = "live"]
          /\ stack' = CallFrom(Frame("ppp_install", "enable", "closure", r, id))
    /\ UNCHANGED <<pppNextId, pppCALLBACKS, pppLock, pppDrops>>
    /\ Forget /\ UNCHANGED <<siteTy, siteCALLBACKS, siteLock>>
    /\ UNCHANGED outsidePpp

CallPppEnable ==
    /\ InUserCode
    /\ \E id \in 0..(pppNextId - 1) :
          stack' = CallFrom(Frame("ppp_enable", "lock", "closure", 0, id))
    /\ UNCHANGED <<pppNextId, pppCALLBACKS, pppLock, pppHeap, pppDrops>>
    /\ Forget /\ UNCHANGED <<siteTy, siteCALLBACKS, siteLock>>
    /\ UNCHANGED outsidePpp

CallPppDisable ==
    /\ InUserCode
    /\ \E id \in 0..(pppNextId - 1) :
          stack' = CallFrom(Frame("ppp_disable", "lock", "closure", 0, id))
    /\ UNCHANGED <<pppNextId, pppCALLBACKS, pppLock, pppHeap, pppDrops>>
    /\ Forget /\ UNCHANGED <<siteTy, siteCALLBACKS, siteLock>>
    /\ UNCHANGED outsidePpp

\* (callback.enable)(callback.closure_ref): the generated enable() calls the
\* site's add_callback_with_context(trampoline, this), before the map is locked.
PppInstallEnable ==
    /\ stack # <<>> /\ Top.op = "ppp_install" /\ Top.pc = "enable"
    /\ stack' = Append(ReplaceTop([Top EXCEPT !.pc = "insert"]),
                       Frame("add", "lock", "closure", Top.c, 0))
    /\ UNCHANGED <<pppNextId, pppCALLBACKS, pppLock, pppHeap, pppDrops>>
    /\ siteUnchanged
    /\ UNCHANGED outsidePpp

\* callback.is_enabled = true; CALLBACKS.lock().unwrap().insert(id, callback).
\* InternalPppClosureCallback has no Drop: a binding the insert replaces is
\* discarded without its drop_fn or its disable being called.
PppInstallInsert ==
    /\ stack # <<>> /\ Top.op = "ppp_install" /\ Top.pc = "insert"
    /\ ~pppLock
    /\ pppCALLBACKS' = [pppCALLBACKS EXCEPT ![Top.id] =
           [present |-> TRUE, closure_ref |-> Top.c, is_enabled |-> TRUE]]
    /\ stack' = Pop
    /\ UNCHANGED <<pppNextId, pppLock, pppHeap, pppDrops>>
    /\ siteUnchanged
    /\ UNCHANGED outsidePpp

\* enable(): lock the map; a binding that is not enabled is added to the site.
PppEnableLock ==
    /\ stack # <<>> /\ Top.op = "ppp_enable" /\ Top.pc = "lock"
    /\ ~pppLock
    /\ LET cb == pppCALLBACKS[Top.id]
       IN IF cb.present /\ ~cb.is_enabled
          THEN /\ pppLock' = TRUE
               /\ stack' = Append(ReplaceTop([Top EXCEPT !.pc = "after"]),
                                  Frame("add", "lock", "closure", cb.closure_ref, 0))
          ELSE /\ pppLock' = FALSE
               /\ stack' = Pop
    /\ UNCHANGED <<pppNextId, pppCALLBACKS, pppHeap, pppDrops>>
    /\ siteUnchanged
    /\ UNCHANGED outsidePpp

PppEnableDone ==
    /\ stack # <<>> /\ Top.op = "ppp_enable" /\ Top.pc = "after"
    /\ pppCALLBACKS' = [pppCALLBACKS EXCEPT ![Top.id].is_enabled = TRUE]
    /\ pppLock' = FALSE
    /\ stack' = Pop
    /\ UNCHANGED <<pppNextId, pppHeap, pppDrops>>
    /\ siteUnchanged
    /\ UNCHANGED outsidePpp

\* disable(): lock the map; an enabled binding is removed from the site.
PppDisableLock ==
    /\ stack # <<>> /\ Top.op = "ppp_disable" /\ Top.pc = "lock"
    /\ ~pppLock
    /\ LET cb == pppCALLBACKS[Top.id]
       IN IF cb.present /\ cb.is_enabled
          THEN /\ pppLock' = TRUE
               /\ stack' = Append(ReplaceTop([Top EXCEPT !.pc = "after"]),
                                  Frame("remove", "lock", "closure", cb.closure_ref, 0))
          ELSE /\ pppLock' = FALSE
               /\ stack' = Pop
    /\ UNCHANGED <<pppNextId, pppCALLBACKS, pppHeap, pppDrops>>
    /\ siteUnchanged
    /\ UNCHANGED outsidePpp

PppDisableDone ==
    /\ stack # <<>> /\ Top.op = "ppp_disable" /\ Top.pc = "after"
    /\ pppCALLBACKS' = [pppCALLBACKS EXCEPT ![Top.id].is_enabled = FALSE]
    /\ pppLock' = FALSE
    /\ stack' = Pop
    /\ UNCHANGED <<pppNextId, pppHeap, pppDrops>>
    /\ siteUnchanged
    /\ UNCHANGED outsidePpp

\* ------------------------------------------------------------------------
\* The Callback closure registry (closure.rs).

outsideCb == <<pppVars, injVars, guestVars, initVars>>

CbFrame(op, pc, id, kind, ref) ==
    [op |-> op, pc |-> pc, id |-> id, kind |-> kind, ref |-> ref, did |-> "none"]

CbTop(t) == cbStack[t][Len(cbStack[t])]
CbPop(t) == SubSeq(cbStack[t], 1, Len(cbStack[t]) - 1)

\* The call into the native callback API a step made, if it made one.
NoNativeCall == [op |-> "none", kind |-> "none", ctx |-> 0]
NativeCall(op, kind, ctx) == [op |-> op, kind |-> kind, ctx |-> ctx]

\* Thread t is in user code: the host between calls, or a closure's body.
CbInUserCode(t) ==
    /\ ~cbCrashed
    /\ IF cbStack[t] = <<>> THEN TRUE
       ELSE CbTop(t).op = "closure" /\ CbTop(t).pc = "body"

\* The stack of t after its user code has called `fr`.
CbCallFrom(t, fr) ==
    IF cbStack[t] = <<>> THEN <<fr>>
    ELSE Append([cbStack[t] EXCEPT ![Len(cbStack[t])] =
                    [CbTop(t) EXCEPT !.pc = "called", !.did = fr.op]], fr)

\* The stack of t after its top frame has returned to its caller.
CbReturn(t) ==
    IF Len(cbStack[t]) = 1 THEN <<>>
    ELSE [CbPop(t) EXCEPT ![Len(cbStack[t]) - 1] =
             [cbStack[t][Len(cbStack[t]) - 1] EXCEPT !.pc = "returned"]]

\* The bindings the registry holds for slot id.
BindingsOf(map, id) == {b \in map : b.id = id}

\* HashMap::insert: the entry replaces any entry of the same key.
HashMapInsert(map, cb) == (map \ BindingsOf(map, cb.id)) \cup {cb}

\* An insert that keeps the replaced entry in the map.
HashMapInsertKeepOld(map, cb) == map \cup {cb}

\* A Drop impl that never calls drop_fn.
ClosureCallback_drop_never(heap, drops, refs) == <<heap, drops>>

\* impl Drop for ClosureCallback: (self.drop_fn)(self.closure_ref), for each
\* binding that goes out of scope.  Gives the heap and the drop counts after.
ClosureCallback_drop(heap, drops, refs) ==
    << [r \in CbRefs |-> IF r \in refs THEN "dropped" ELSE heap[r]],
       [r \in CbRefs |-> IF r \in refs THEN drops[r] + 1 ELSE drops[r]] >>

\* The native side (panda_register/enable/disable_callback_with_context):
\* a registration is the (kind, trampoline, context) triple and its active bit.
NativeRegister(cbs, kind, ctx) ==
    {c \in cbs : ~(c.kind = kind /\ c.ctx = ctx)}
        \cup {[kind |-> kind, ctx |-> ctx, enabled |-> TRUE]}

NativeSetEnabled(cbs, kind, ctx, on) ==
    {IF c.kind = kind /\ c.ctx = ctx THEN [c EXCEPT !.enabled = on] ELSE c : c \in cbs}

\* A fetch_add that hands the counter out without advancing it.
Callback_new_stale(id) == [handle |-> id, next |-> id]

\* CURRENT_CALLBACK_ID.fetch_add(1, SeqCst): the value before, and the value stored.
Callback_new(id) == [handle |-> id, next |-> id + 1]

\* Callback::new, called by the thread that installs closures or by another one;
\* the fetch_add is one atomic step.
CallbackNew ==
    \E t \in CbCallers :
        /\ ~cbCrashed
        /\ t \in CbThreads => CbInUserCode(t)
        /\ Len(cbHandles) < MaxCbHandles
        /\ cbNextId' = Callback_new(cbNextId).next
        /\ cbHandles' = Append(cbHandles, [thread |-> t, handle |-> Callback_new(cbNextId).handle])
        /\ UNCHANGED <<CALLBACKS, cbLock, nativeCbs, cbHeap, cbDrops, cbStack, cbCrashed>>
        /\ UNCHANGED nativeCall
        /\ UNCHANGED outsideCb

\* <slot>.<kind>(closure): the closure is double-boxed and
\* install_closure_callback(id, callback) is entered.
CallInstall ==
    \E t \in CbThreads, id \in 0..(cbNextId - 1), kind \in CbKinds, r \in CbRefs :
        /\ CbInUserCode(t)
        /\ cbHeap[r] = "free"
        /\ \A q \in CbRefs : q < r => cbHeap[q] # "free"
        /\ cbHeap' = [cbHeap EXCEPT ![r] = "live"]
        /\ cbStack' = [cbStack EXCEPT ![t] =
                          CbCallFrom(t, CbFrame("install", "register", id, kind, r))]
        /\ UNCHANGED <<cbNextId, cbHandles, CALLBACKS, cbLock, nativeCbs, cbDrops, cbCrashed>>
        /\ nativeCall' = NoNativeCall
        /\ UNCHANGED outsideCb

CallEnable ==
    \E t \in CbThreads, id \in 0..(cbNextId - 1) :
        /\ CbInUserCode(t)
        /\ cbStack' = [cbStack EXCEPT ![t] =
                          CbCallFrom(t, CbFrame("enable", "lock", id, "none", 0))]
        /\ UNCHANGED <<cbNextId, cbHandles, CALLBACKS, cbLock, nativeCbs, cbHeap, cbDrops, cbCrashed>>
        /\ nativeCall' = NoNativeCall
        /\ UNCHANGED outsideCb

CallDisable ==
    \E t \in CbThreads, id \in 0..(cbNextId - 1) :
        /\ CbInUserCode(t)
        /\ cbStack' = [cbStack EXCEPT ![t] =
                          CbCallFrom(t, CbFrame("disable", "lock", id, "none", 0))]
        /\ UNCHANGED <<cbNextId, cbHandles, CALLBACKS, cbLock, nativeCbs, cbHeap, cbDrops, cbCrashed>>
        /\ nativeCall' = NoNativeCall
        /\ UNCHANGED outsideCb

\* install_closure_callback: panda_register_callback_with_context(plugin,
\* cb_kind, trampoline, closure_ref)
InstallRegister ==
    \E t \in CbThreads :
        /\ ~cbCrashed /\ cbStack[t] # <<>>
        /\ CbTop(t).op = "install" /\ CbTop(t).pc = "register"
        /\ nativeCbs' = NativeRegister(nativeCbs, CbTop(t).kind, CbTop(t).ref)
        /\ cbStack' = [cbStack EXCEPT ![t][Len(cbStack[t])].pc = "write"]
        /\ UNCHANGED <<cbNextId, cbHandles, CALLBACKS, cbLock, cbHeap, cbDrops, cbCrashed>>
        /\ nativeCall' = NativeCall("register", CbTop(t).kind, CbTop(t).ref)
        /\ UNCHANGED outsideCb

\* install_closure_callback: CALLBACKS.write().unwrap().insert(id, callback);
\* the binding insert() returns is dropped at the end of the statement.
InstallInsert ==
    \E t \in CbThreads :
        /\ ~cbCrashed /\ cbStack[t] # <<>>
        /\ CbTop(t).op = "install" /\ CbTop(t).pc = "write"
        /\ \A u \in CbThreads : cbLock[u] = "none"
        /\ LET cb == [id |-> CbTop(t).id, closure_ref |-> CbTop(t).ref,
                      cb_kind |-> CbTop(t).kind]
               old == {b.closure_ref : b \in BindingsOf(CALLBACKS, cb.id)}
               after == ClosureCallback_drop(cbHeap, cbDrops, old)
           IN /\ CALLBACKS' = HashMapInsert(CALLBACKS, cb)
              /\ cbHeap' = after[1]
              /\ cbDrops' = after[2]
        /\ cbStack' = [cbStack EXCEPT ![t] = CbReturn(t)]
        /\ UNCHANGED <<cbNextId, cbHandles, cbLock, nativeCbs, cbCrashed>>
        /\ UNCHANGED nativeCall
        /\ UNCHANGED outsideCb

\* enable()/disable(): let callbacks = CALLBACKS.read().unwrap()
ReadLock ==
    \E t \in CbThreads :
        /\ ~cbCrashed /\ cbStack[t] # <<>>
        /\ CbTop(t).op \in {"enable", "disable"} /\ CbTop(t).pc = "lock"
        /\ \A u \in CbThreads : cbLock[u] # "write"
        /\ cbLock[t] = "none"
        /\ cbLock' = [cbLock EXCEPT ![t] = "read"]
        /\ cbStack' = [cbStack EXCEPT ![t][Len(cbStack[t])].pc = "locked"]
        /\ UNCHANGED <<cbNextId, cbHandles, CALLBACKS, nativeCbs, cbHeap, cbDrops, cbCrashed>>
        /\ UNCHANGED nativeCall
        /\ UNCHANGED outsideCb

\* An enable() that drops the closure of the binding it enables.
EnableBodyDrops(id) ==
    LET bs == BindingsOf(CALLBACKS, id)
        after == ClosureCallback_drop(cbHeap, cbDrops, {b.closure_ref : b \in bs})
    IN << CALLBACKS,
          IF bs = {} THEN nativeCbs
          ELSE LET b == CHOOSE x \in bs : TRUE
               IN NativeSetEnabled(nativeCbs, b.cb_kind, b.closure_ref, TRUE),
          after[1], after[2],
          IF bs = {} THEN NoNativeCall
          ELSE LET b == CHOOSE x \in bs : TRUE
               IN NativeCall("enable", b.cb_kind, b.closure_ref) >>

\* What enable() does once it holds the read guard; gives the registry, the
\* native list, the heap and the drop counts after.
EnableBody(id) ==
    LET bs == BindingsOf(CALLBACKS, id)
    IN << CALLBACKS,
          IF bs = {} THEN nativeCbs
          ELSE LET b == CHOOSE x \in bs : TRUE
               IN NativeSetEnabled(nativeCbs, b.cb_kind, b.closure_ref, TRUE),
          cbHeap, cbDrops,
          IF bs = {} THEN NoNativeCall
          ELSE LET b == CHOOSE x \in bs : TRUE
               IN NativeCall("enable", b.cb_kind, b.closure_ref) >>

\* A disable() that takes the binding out of the registry and drops it.
DisableBodyRemoves(id) ==
    LET bs == BindingsOf(CALLBACKS, id)
        after == ClosureCallback_drop(cbHeap, cbDrops, {b.closure_ref : b \in bs})
    IN << CALLBACKS \ bs,
          IF bs = {} THEN nativeCbs
          ELSE LET b == CHOOSE x \in bs : TRUE
               IN NativeSetEnabled(nativeCbs, b.cb_kind, b.closure_ref, FALSE),
          after[1], after[2],
          IF bs = {} THEN NoNativeCall
          ELSE LET b == CHOOSE x \in bs : TRUE
               IN NativeCall("disable", b.cb_kind, b.closure_ref) >>

\* What disable() does once it holds the read guard.
DisableBody(id) ==
    LET bs == BindingsOf(CALLBACKS, id)
    IN << CALLBACKS,
          IF bs = {} THEN nativeCbs
          ELSE LET b == CHOOSE x \in bs : TRUE
               IN NativeSetEnabled(nativeCbs, b.cb_kind, b.closure_ref, FALSE),
          cbHeap, cbDrops,
          IF bs = {} THEN NoNativeCall
          ELSE LET b == CHOOSE x \in bs : TRUE
               IN NativeCall("disable", b.cb_kind, b.closure_ref) >>

\* enable(): if the slot has a binding, panda_enable_callback_with_context;
\* the guard is dropped on return.
Enable ==
    \E t \in CbThreads :
        /\ ~cbCrashed /\ cbStack[t] # <<>>
        /\ CbTop(t).op = "enable" /\ CbTop(t).pc = "locked"
        /\ LET after == EnableBody(CbTop(t).id)
           IN /\ CALLBACKS' = after[1] /\ nativeCbs' = after[2]
              /\ cbHeap' = after[3] /\ cbDrops' = after[4]
              /\ nativeCall' = after[5]
        /\ cbLock' = [cbLock EXCEPT ![t] = "none"]
        /\ cbStack' = [cbStack EXCEPT ![t] = CbReturn(t)]
        /\ UNCHANGED <<cbNextId, cbHandles, cbCrashed>>
        /\ UNCHANGED outsideCb

\* disable(): if the slot has a binding, panda_disable_callback_with_context.
Disable ==
    \E t \in CbThreads :
        /\ ~cbCrashed /\ cbStack[t] # <<>>
        /\ CbTop(t).op = "disable" /\ CbTop(t).pc = "locked"
        /\ LET after == DisableBody(CbTop(t).id)
           IN /\ CALLBACKS' = after[1] /\ nativeCbs' = after[2]
              /\ cbHeap' = after[3] /\ cbDrops' = after[4]
              /\ nativeCall' = after[5]
        /\ cbLock' = [cbLock EXCEPT ![t] = "none"]
        /\ cbStack' = [cbStack EXCEPT ![t] = CbReturn(t)]
        /\ UNCHANGED <<cbNextId, cbHandles, cbCrashed>>
        /\ UNCHANGED outsideCb

\* The emulator raises an event on thread t and calls the trampoline of an
\* active registration with its context: the boxed closure runs.
NativeInvoke ==
    \E t \in CbThreads, c \in nativeCbs :
        /\ ~cbCrashed /\ cbStack[t] = <<>>
        /\ c.enabled
        /\ cbHeap[c.ctx] = "live"
        /\ cbStack' = [cbStack EXCEPT ![t] = <<CbFrame("closure", "body", 0, c.kind, c.ctx)>>]
        /\ UNCHANGED <<cbNextId, cbHandles, CALLBACKS, cbLock, nativeCbs, cbHeap, cbDrops, cbCrashed>>
        /\ UNCHANGED nativeCall
        /\ UNCHANGED outsideCb

\* The same for a registration whose context has been dropped: the trampoline
\* reads freed memory.  The closure may still run, or the process dies.
NativeInvokeDangling ==
    \E t \in CbThreads, c \in nativeCbs, dies \in BOOLEAN :
        /\ ~cbCrashed /\ cbStack[t] = <<>>
        /\ c.enabled
        /\ cbHeap[c.ctx] = "dropped"
        /\ cbCrashed' = dies
        /\ cbStack' = [cbStack EXCEPT ![t] =
               IF dies THEN <<>> ELSE <<CbFrame("closure", "body", 0, c.kind, c.ctx)>>]
        /\ UNCHANGED <<cbNextId, cbHandles, CALLBACKS, cbLock, nativeCbs, cbHeap, cbDrops>>
        /\ UNCHANGED nativeCall
        /\ UNCHANGED outsideCb

\* The closure returns to the emulator.
ClosureReturn ==
    \E t \in CbThreads :
        /\ ~cbCrashed /\ cbStack[t] # <<>>
        /\ CbTop(t).op = "closure"
        /\ cbStack' = [cbStack EXCEPT ![t] = <<>>]
        /\ UNCHANGED <<cbNextId, cbHandles, CALLBACKS, cbLock, nativeCbs, cbHeap, cbDrops, cbCrashed>>
        /\ UNCHANGED nativeCall
        /\ UNCHANGED outsideCb

\* ------------------------------------------------------------------------
\* The syscall injection engine (syscall_injection.rs and its submodules),
\* for the x86_64 row of the register tables.

outsideInj == <<pppVars, cbVars, guestVars, initVars>>

SYSCALL_NUM_REG == "RAX"
SYSCALL_RET == "RAX"
SYSCALL_ARGS == <<"RDI", "RSI", "RDX", "R10", "R8", "R9">>
\* RSP is what syscall() saves and puts back; RCX is a register the syscall
\* instruction itself overwrites and nothing in the engine saves.
RegNames == {"RAX", "RDI", "RSI", "RDX", "R10", "R8", "R9", "RSP", "RCX"}
ArgIndex == DOMAIN SYSCALL_ARGS
BackedUpRegs == {SYSCALL_NUM_REG} \cup {SYSCALL_ARGS[i] : i \in ArgIndex}

VFORK == 58
PidNone == 0            \* u64::MAX in PARENT_PID

\* Guest threads: 1 and 2 are the two threads of process 1 and share its
\* address space; Child is the process a vfork of one of them creates.  A
\* vfork child runs in its parent's address space, and the parent stays in
\* the vfork, until the child replaces its image (ExecAsid).
Child == 3
Tids == {1, 2, Child}
ProcessAsid == 1
ExecAsid == 2
OtherAsid == 3
Asids == {ProcessAsid, ExecAsid, OtherAsid}

\* The opaque futures the injectors are made of: a program of awaits.
OpSyscall == [op |-> "syscall", child |-> <<>>]
OpBail == [op |-> "bail", child |-> <<>>]
OpFork(c) == [op |-> "fork", child |-> c]
ChildPrograms == {<<>>, <<OpSyscall>>}
PlainPrograms == {<<>>, <<OpSyscall>>, <<OpSyscall, OpSyscall>>, <<OpSyscall, OpBail>>}
ForkPrograms == {<<OpSyscall, OpFork(c)>> : c \in ChildPrograms}

\* The number and the arguments an injector gives to its ip-th syscall.
InjectedNum(uid, ip) == 10 * uid + ip
InjectedArgs(uid, ip) == <<uid + 4, ip + 4>>

\* What a thread's own k-th syscall puts in the registers, and where it is.
OwnRegs(t, k) ==
    [r \in RegNames |->
        CASE r = "RAX" -> k
          [] r = "RDI" -> t
          [] r = "RSP" -> 3
          [] r = "RCX" -> 0
          [] OTHER -> 2]
OwnPc(t, k) == 100 * t + k

\* The value the guest kernel returns for a syscall.
KernelRet(num) == 100 + num

NoCell == -2      \* no SyscallFuture is being awaited
Unset == -1       \* the OnceCell of the awaited SyscallFuture is empty

\* SyscallRegs::backup
SyscallRegs_backup(regs) ==
    [sys_num_reg |-> regs[SYSCALL_NUM_REG],
     arg_regs |-> [i \in ArgIndex |-> regs[SYSCALL_ARGS[i]]]]

SyscallRegs_restore_args_only(regs, snap) ==
    [r \in RegNames |->
        IF \E i \in ArgIndex : SYSCALL_ARGS[i] = r
        THEN snap.arg_regs[CHOOSE i \in ArgIndex : SYSCALL_ARGS[i] = r]
        ELSE regs[r]]

\* SyscallRegs::restore
SyscallRegs_restore(regs, snap) ==
    [r \in RegNames |->
        IF r = SYSCALL_NUM_REG THEN snap.sys_num_reg
        ELSE IF \E i \in ArgIndex : SYSCALL_ARGS[i] = r
        THEN snap.arg_regs[CHOOSE i \in ArgIndex : SYSCALL_ARGS[i] = r]
        ELSE regs[r]]

\* set_syscall_args: zip(SYSCALL_ARGS, args)
set_syscall_args(regs, args) ==
    [r \in RegNames |->
        IF \E i \in DOMAIN args : SYSCALL_ARGS[i] = r
        THEN args[CHOOSE i \in DOMAIN args : SYSCALL_ARGS[i] = r]
        ELSE regs[r]]

\* A push that puts the future in front of the ones already queued.
PinnedQueue_push_front(q, fut) == <<fut>> \o q

\* PinnedQueue: push_future, current, pop, is_empty
PinnedQueue_push_future(q, fut) == Append(q, fut)
PinnedQueue_current(q) == q[1]
PinnedQueue_pop(q) == Tail(q)
INJECTORS_is_empty(G) == \A t \in Tids : G.INJECTORS[t] = <<>>

\* The future run_injector queues (child = FALSE: it backs the registers up on
\* its first poll) or the one the sys_return hook queues for a fork child
\* (child = TRUE: it carries the snapshot the parent took).
\* start and chain remember the registers the thread had when this injector,
\* and the run of injectors it belongs to, was first polled; the start of a
\* fork child's future is that of the injector that forked; pc is the syscall
\* address run_injector was given for it.
InjectorFuture(uid, prog, child, snap, start) ==
    [uid |-> uid, prog |-> prog, ip |-> 1, started |-> child, child |-> child,
     backup |-> snap, cell |-> NoCell, sp |-> 0, rets |-> <<>>,
     start |-> start, chain |-> <<>>, pc |-> 0]

NoSnap == [sys_num_reg |-> 0, arg_regs |-> [i \in ArgIndex |-> 0]]

\* The engine's statics and the guest, as one value the handlers transform.
Eng ==
    [thr |-> thr, INJECTORS |-> INJECTORS, RET_SLOT |-> RET_SLOT,
     WAITING_FOR_SYSCALL |-> WAITING_FOR_SYSCALL, INJECTOR_BAIL |-> INJECTOR_BAIL,
     SHOULD_LOOP_AGAIN |-> SHOULD_LOOP_AGAIN,
     CURRENT_INJECTOR_THREAD |-> CURRENT_INJECTOR_THREAD,
     CHILD_INJECTOR |-> CHILD_INJECTOR, PARENT_PID |-> PARENT_PID,
     FORKING_THREADS |-> FORKING_THREADS, CURRENT_REGS_BACKUP |-> CURRENT_REGS_BACKUP,
     LAST_INJECTED_SYSCALL |-> LAST_INJECTED_SYSCALL, hooks |-> hooks,
     nextUid |-> nextUid, runs |-> runs, panicked |-> panicked,
     issued |-> issued, injected |-> injected, completed |-> <<>>,
     restart |-> FALSE]

\* A pair whose PppCallbacks were disabled is subscribed to nothing any more.
Subscribed(h) == h.enter \/ h.ret

Commit(G) ==
    /\ thr' = G.thr
    /\ INJECTORS' = G.INJECTORS
    /\ RET_SLOT' = G.RET_SLOT
    /\ WAITING_FOR_SYSCALL' = G.WAITING_FOR_SYSCALL
    /\ INJECTOR_BAIL' = G.INJECTOR_BAIL
    /\ SHOULD_LOOP_AGAIN' = G.SHOULD_LOOP_AGAIN
    /\ CURRENT_INJECTOR_THREAD' = G.CURRENT_INJECTOR_THREAD
    /\ CHILD_INJECTOR' = G.CHILD_INJECTOR
    /\ PARENT_PID' = G.PARENT_PID
    /\ FORKING_THREADS' = G.FORKING_THREADS
    /\ CURRENT_REGS_BACKUP' = G.CURRENT_REGS_BACKUP
    /\ LAST_INJECTED_SYSCALL' = G.LAST_INJECTED_SYSCALL
    /\ hooks' = SelectSeq(G.hooks, Subscribed)
    /\ nextUid' = G.nextUid
    /\ runs' = G.runs
    /\ panicked' = G.panicked
    /\ issued' = G.issued
    /\ injected' = G.injected
    /\ completed' = G.completed
    /\ UNCHANGED outsideInj

\* SyscallFuture::poll on the cell of injector j.
SyscallFuture_poll(G, t, j) ==
    IF j.cell = Unset
    THEN [G |-> [G EXCEPT !.WAITING_FOR_SYSCALL = TRUE,
                          !.RET_SLOT[G.thr[t].asid] = <<j.uid, j.ip>>],
          j |-> j, ready |-> FALSE]
    ELSE [G |-> G, j |-> j, ready |-> TRUE]

\* syscall(num, args) up to its first await of the SyscallFuture.
syscall_setup(G, t, j, num, args) ==
    [G |-> [G EXCEPT !.LAST_INJECTED_SYSCALL = num,
                     !.thr[t].regs = set_syscall_args(
                                        [@ EXCEPT ![SYSCALL_NUM_REG] = num], args),
                     !.thr[t].by = j.uid,
                     !.thr[t].ip = j.ip,
                     !.injected[t] = Append(@, [by |-> j.uid, ip |-> j.ip,
                                                child |-> j.child])],
     j |-> [j EXCEPT !.sp = G.thr[t].regs["RSP"], !.cell = Unset]]

\* fork(child_injector) up to its syscall(VFORK, ()).
fork_backed_up_regs_now(G, t) == <<SyscallRegs_backup(G.thr[t].regs)>>

fork_backed_up_regs(G, t) == G.CURRENT_REGS_BACKUP[t]

fork_setup(G, t, j) ==
    [G EXCEPT !.PARENT_PID = G.thr[t].pid,
              !.FORKING_THREADS = @ \cup {t},
              !.CHILD_INJECTOR = <<[regs |-> fork_backed_up_regs(G, t)[1],
                                    prog |-> j.prog[j.ip].child,
                                    parent |-> t, start |-> j.start]>>]

\* A bail that writes the injector's backup to the registers first.
bail_restore_regs(G, t, j) ==
    [G EXCEPT !.INJECTOR_BAIL = TRUE,
              !.thr[t].regs = SyscallRegs_restore(@, j.backup)]

\* bail_no_restore_regs: INJECTOR_BAIL.store(true), then pending forever
bail_no_restore_regs(G, t, j) == [G EXCEPT !.INJECTOR_BAIL = TRUE]

\* One poll of the future at the head of t's queue: it runs until it awaits a
\* syscall whose return value is not there yet, bails, or finishes.
RECURSIVE Injector_poll(_, _, _)
Injector_poll(G, t, j) ==
    IF ~j.started
    THEN \* let backed_up_regs = SyscallRegs::backup(); set_backed_up_regs(..)
         LET b == SyscallRegs_backup(G.thr[t].regs)
         IN  Injector_poll([G EXCEPT !.CURRENT_REGS_BACKUP[t] = <<b>>], t,
                           [j EXCEPT !.started = TRUE, !.backup = b,
                                     !.start = <<G.thr[t].regs>>,
                                     !.chain = IF @ = <<>> THEN <<G.thr[t].regs>> ELSE @])
    ELSE IF j.ip > Len(j.prog)
    THEN \* backed_up_regs.restore(); unset_backed_up_regs()
         [G |-> [G EXCEPT !.thr[t].regs = SyscallRegs_restore(@, j.backup),
                          !.thr[t].by = 0,
                          !.thr[t].ip = 0,
                          !.CURRENT_REGS_BACKUP[t] = IF j.child THEN @ ELSE <<>>],
          j |-> j, ready |-> TRUE, pre |-> G.thr[t].regs]
    ELSE IF j.prog[j.ip].op = "bail"
    THEN [G |-> bail_no_restore_regs(G, t, j), j |-> j, ready |-> FALSE]
    ELSE IF j.cell = NoCell
    THEN IF j.prog[j.ip].op = "syscall"
         THEN LET s == syscall_setup(G, t, j, InjectedNum(j.uid, j.ip),
                                     InjectedArgs(j.uid, j.ip))
              IN  SyscallFuture_poll(s.G, t, s.j)
         ELSE IF fork_backed_up_regs(G, t) = <<>>
         THEN [G |-> [G EXCEPT !.panicked = TRUE], j |-> j, ready |-> FALSE]
         ELSE LET s == syscall_setup(fork_setup(G, t, j), t, j, VFORK, <<>>)
              IN  SyscallFuture_poll(s.G, t, s.j)
    ELSE IF j.cell = Unset
    THEN SyscallFuture_poll(G, t, j)
    ELSE \* the awaited syscall has returned: put the stack pointer back, go on
         Injector_poll([G EXCEPT !.thr[t].regs["RSP"] = j.sp], t,
                       [j EXCEPT !.ip = @ + 1, !.cell = NoCell,
                                 !.rets = Append(@, j.cell)])

\* What poll_injectors remembers of an injector it pops.
Completion(t, r, pre, how, last) ==
    [t |-> t, uid |-> r.j.uid, child |-> r.j.child, how |-> how, last |-> last,
     start |-> r.j.start, chain |-> r.j.chain, pre |-> pre,
     post |-> r.G.thr[t].regs, len |-> Len(r.j.prog), rets |-> r.j.rets]

\* The while-let loop of poll_injectors over the queue of thread t.  A future
\* of these programs that is pending and has not bailed awaits a syscall, so
\* the arm that polls again at once is never taken.
RECURSIVE poll_loop(_, _)

\* The body of the loop once the head of the queue has been polled with
\* result r.
poll_loop_polled(G, t, r) ==
    LET bail == ~r.ready /\ r.G.INJECTOR_BAIL
        G2 == IF r.ready THEN r.G ELSE [r.G EXCEPT !.INJECTOR_BAIL = FALSE]
        rest == PinnedQueue_pop(G.INJECTORS[t])
        next == IF rest # <<>> /\ r.ready /\ ~r.j.child
                THEN [rest EXCEPT ![1].chain = r.j.chain] ELSE rest
        pre == IF r.ready THEN r.pre ELSE r.G.thr[t].regs
    IN  IF r.G.panicked THEN [G |-> r.G, exit |-> "returned"]
        ELSE IF r.ready \/ bail
        THEN LET G3 == [G2 EXCEPT
                          !.INJECTORS[t] = next,
                          !.completed = Append(@, Completion(t, r, pre,
                                           IF r.ready THEN "ready" ELSE "bail",
                                           rest = <<>>))]
             IN  IF rest = <<>> THEN [G |-> G3, exit |-> "done"]
                 ELSE poll_loop(G3, t)
        ELSE [G |-> [G2 EXCEPT !.INJECTORS[t][1] = r.j], exit |-> "returned"]

poll_loop(G, t) ==
    IF G.INJECTORS[t] = <<>> THEN [G |-> G, exit |-> "done"]
    ELSE poll_loop_polled(G, t,
             Injector_poll([G EXCEPT !.CURRENT_INJECTOR_THREAD = t], t,
                           PinnedQueue_current(G.INJECTORS[t])))

\* A poll_injectors that reports the end as soon as the polled queue is drained.
poll_injectors_after_own_queue(r) == [G |-> r.G, all |-> r.exit = "done"]

\* poll_injectors: TRUE when every injector has been processed.
poll_injectors_after(r) ==
    [G |-> r.G,
     all |-> /\ r.exit = "done"
             /\ INJECTORS_is_empty(r.G)
             /\ r.G.CHILD_INJECTOR = <<>>]

poll_injectors(G, t) ==
    IF G.INJECTORS[t] = <<>>
    THEN [G |-> [G EXCEPT !.WAITING_FOR_SYSCALL = FALSE,
                          !.CURRENT_INJECTOR_THREAD = 0],
          all |-> FALSE]
    ELSE poll_injectors_after(
             poll_loop([G EXCEPT !.WAITING_FOR_SYSCALL = FALSE,
                                 !.CURRENT_INJECTOR_THREAD = 0], t))

\* disable_callbacks of the pair of hooks h
disable_callbacks(G, h) ==
    [G EXCEPT !.hooks[h].enter = FALSE, !.hooks[h].ret = FALSE]

\* restart_syscall: set_pc, then cpu_loop_exit_noexc leaves the callback
restart_syscall(G, t, pc) == [G EXCEPT !.thr[t].pc = pc, !.restart = TRUE]

\* set_ret_value: the cell RET_SLOT has for the current ASID gets SYSCALL_RET,
\* unless it is set already.
set_ret_value(G, t) ==
    LET slot == G.RET_SLOT[G.thr[t].asid]
        Owns(q, k) == /\ G.INJECTORS[q][k].uid = slot[1]
                      /\ G.INJECTORS[q][k].ip = slot[2]
                      /\ G.INJECTORS[q][k].cell = Unset
        Cells == IF slot = <<>> THEN {}
                 ELSE {c \in Tids \X (1..MaxInjectors + 1) :
                          c[2] \in DOMAIN G.INJECTORS[c[1]] /\ Owns(c[1], c[2])}
    IN  IF Cells = {} THEN G
        ELSE LET c == CHOOSE c \in Cells : TRUE
             IN  [G EXCEPT !.INJECTORS[c[1]][c[2]].cell = G.thr[t].regs[SYSCALL_RET]]

\* if poll_injectors() { disable both callbacks }, of the pair of hooks h
disable_if_all(r, h) == IF r.all THEN disable_callbacks(r.G, h) ELSE r.G

\* run_injector(pc, injector) called on thread t
run_injector(G, t, pc, prog) ==
    LET is_first == INJECTORS_is_empty(G)
        G1 == [G EXCEPT
                 !.INJECTORS[t] = PinnedQueue_push_future(@,
                                     [InjectorFuture(G.nextUid, prog, FALSE, NoSnap, <<>>)
                                          EXCEPT !.pc = pc]),
                 !.nextUid = @ + 1,
                 !.runs = @ + 1]
        G2 == [G1 EXCEPT !.hooks = Append(@, [pc |-> pc, enter |-> TRUE, ret |-> TRUE])]
    IN  IF ~is_first THEN G1
        ELSE disable_if_all(poll_injectors(G2, t), Len(G.hooks) + 1)

\* A test that takes every thread for the one being injected into.
is_any_thread(G, t) == TRUE

\* is_current_injector_thread
is_current_injector_thread(G, t) == G.CURRENT_INJECTOR_THREAD = t

\* the closure given to sys_return.on_all_sys_return, of the pair h
on_all_sys_return(G, t, h) ==
    LET forking == G.FORKING_THREADS \ {t}
        is_fork_child == \E f \in forking : G.thr[f].pid = G.thr[t].ppid
        G1 == [G EXCEPT !.FORKING_THREADS = forking,
                        !.PARENT_PID = IF is_fork_child THEN PidNone ELSE @]
        G2 == IF is_fork_child
              THEN [G1 EXCEPT
                      !.INJECTORS[t] = PinnedQueue_push_future(@,
                                          InjectorFuture(G.nextUid,
                                                         G.CHILD_INJECTOR[1].prog, TRUE,
                                                         G.CHILD_INJECTOR[1].regs,
                                                         G.CHILD_INJECTOR[1].start)),
                      !.nextUid = @ + 1,
                      !.CHILD_INJECTOR = <<>>]
              ELSE G1
        G3 == [G2 EXCEPT !.SHOULD_LOOP_AGAIN = TRUE]
    IN  IF is_fork_child /\ G.CHILD_INJECTOR = <<>> THEN G1
        ELSE IF is_fork_child THEN restart_syscall(G3, t, G.hooks[h].pc)
        ELSE IF is_current_injector_thread(G, t)
        THEN restart_syscall(set_ret_value(G3, t), t, G.hooks[h].pc)
        ELSE G2

\* the closure given to sys_enter.on_all_sys_enter, of the pair h
loop_again(G, t, pc) ==
    IF G.SHOULD_LOOP_AGAIN
    THEN restart_syscall([G EXCEPT !.SHOULD_LOOP_AGAIN = FALSE], t, pc)
    ELSE G

on_all_sys_enter(G, t, h) ==
    loop_again(disable_if_all(poll_injectors(G, t), h), t, G.hooks[h].pc)

\* The emulator runs the subscribers of on_all_sys_enter / on_all_sys_return
\* that were subscribed when the event began, in order; a restart_syscall
\* leaves the callback and the event.
RECURSIVE RunEnterHooks(_, _, _, _)
RunEnterHooks(G, t, h, n) ==
    IF h > n \/ G.restart \/ G.panicked THEN G
    ELSE RunEnterHooks(IF G.hooks[h].enter THEN on_all_sys_enter(G, t, h) ELSE G,
                       t, h + 1, n)

RECURSIVE RunReturnHooks(_, _, _, _)
RunReturnHooks(G, t, h, n) ==
    IF h > n \/ G.restart \/ G.panicked THEN G
    ELSE RunReturnHooks(IF G.hooks[h].ret THEN on_all_sys_return(G, t, h) ELSE G,
                        t, h + 1, n)

\* The guest kernel is entered: the syscall in the registers is the one that
\* runs.  A vfork creates the child, which starts inside the same syscall;
\* a syscall of the child that is an exec gives it an address space of its
\* own and lets the parent go.
KernelEnter(G, t, exec) ==
    LET num == G.thr[t].regs[SYSCALL_NUM_REG]
        forks == num = VFORK /\ G.thr[Child].st = "none"
        G0 == IF exec
              THEN [G EXCEPT !.thr = [q \in Tids |->
                                        [G.thr[q] EXCEPT !.wait = 0,
                                            !.asid = IF q = t THEN ExecAsid ELSE @]]]
              ELSE G
        G1 == [G0 EXCEPT
                 !.thr[t].st = "kernel",
                 !.thr[t].sysno = num,
                 !.thr[t].wait = IF forks THEN Child ELSE 0,
                 !.thr[t].kid = IF forks THEN Child ELSE 0,
                 !.issued[t] = IF G.thr[t].by = 0 THEN @
                               ELSE Append(@, [num |-> num, by |-> G.thr[t].by,
                                               ip |-> G.thr[t].ip])]
    IN  IF forks
        THEN [G1 EXCEPT !.thr[Child] =
                 [G1.thr[t] EXCEPT !.pid = Child, !.ppid = G.thr[t].pid,
                                   !.wait = 0, !.kid = 0, !.started = FALSE,
                                   !.by = 0, !.ip = 0]]
        ELSE G1

\* The guest kernel returns to the thread.
KernelReturn(G, t) ==
    LET ret == IF G.thr[t].sysno # VFORK THEN KernelRet(G.thr[t].sysno)
               ELSE IF ~G.thr[t].started THEN 0
               ELSE IF G.thr[t].kid # 0 THEN G.thr[G.thr[t].kid].pid
               ELSE KernelRet(VFORK)
    IN  [G EXCEPT !.thr[t].regs = [@ EXCEPT ![SYSCALL_RET] = ret,
                                            !["RCX"] = 1],
                  !.thr[t].started = TRUE,
                  !.thr[t].kid = 0,
                  !.thr[t].by = 0,
                  !.thr[t].ip = 0]

\* The user's on_all_sys_enter callback may call run_injector.
Programs(G, t) ==
    IF G.runs >= MaxInjectors THEN {}
    ELSE PlainPrograms \cup
         (IF G.thr[Child].st = "none" /\ G.FORKING_THREADS = {} /\ t # Child
          THEN ForkPrograms ELSE {})

\* The same callback when no injector it starts forks.
ThreadPrograms(G) ==
    IF G.runs >= MaxThreadInjectors THEN {} ELSE PlainPrograms

\* The same callback when it starts injectors that fork at once after one
\* syscall, or that inject nothing.
ForkingPrograms(G, t) ==
    IF G.runs >= MaxForkInjectors THEN {}
    ELSE {<<>>} \cup
         (IF G.thr[Child].st = "none" /\ G.FORKING_THREADS = {} /\ t # Child
          THEN {<<OpSyscall, OpFork(<<>>)>>} ELSE {})

\* The callbacks of the syscall entry have run and left the engine as G: the
\* thread is back at the instruction when one of them restarted the syscall,
\* and in the kernel otherwise.
EnterKernel(G, t, exec) ==
    /\ exec => /\ ~G.restart /\ ~G.panicked
               /\ \E q \in Tids : thr[q].wait = t
    /\ Commit(IF G.restart \/ G.panicked THEN G ELSE KernelEnter(G, t, exec))

\* The callbacks of the syscall return have run and left the engine as G.
LeaveKernel(G, t) ==
    Commit([G EXCEPT !.thr[t].st = IF G.restart THEN "user" ELSE "after"])

\* A guest thread executes the syscall instruction at its pc.
SysEnter(t, call, exec, allowed) ==
    /\ ~panicked
    /\ thr[t].st = "user"
    /\ IF call = <<>> THEN TRUE ELSE call[1] \in allowed
    /\ EnterKernel(RunEnterHooks(IF call = <<>> THEN Eng
                                 ELSE run_injector(Eng, t, thr[t].pc, call[1]),
                                 t, 1, Len(hooks)),
                   t, exec)

\* The syscall a guest thread is in returns.
SysReturn(t) ==
    /\ ~panicked
    /\ thr[t].st = "kernel"
    /\ thr[t].wait = 0
    /\ LeaveKernel(RunReturnHooks(KernelReturn(Eng, t), t, 1, Len(hooks)), t)

\* The syscalls the guest threads have gone on to after their first.
RECURSIVE SumOwn(_)
SumOwn(S) ==
    IF S = {} THEN 0
    ELSE LET t == CHOOSE t \in S : TRUE
         IN  (IF thr[t].own > 1 THEN thr[t].own - 1 ELSE 0) + SumOwn(S \ {t})
OwnSyscalls == SumOwn(Tids)

\* The guest thread goes on to its next syscall.
GuestNext(t) ==
    /\ ~panicked
    /\ thr[t].st = "after"
    /\ OwnSyscalls < MaxOwn
    /\ thr' = [thr EXCEPT ![t].st = "user",
                          ![t].own = @ + 1,
                          ![t].regs = OwnRegs(t, thr[t].own + 1),
                          ![t].pc = OwnPc(t, thr[t].own + 1),
                          ![t].by = 0,
                          ![t].ip = 0]
    /\ completed' = <<>>
    /\ UNCHANGED <<INJECTORS, RET_SLOT, WAITING_FOR_SYSCALL, INJECTOR_BAIL,
                   SHOULD_LOOP_AGAIN, CURRENT_INJECTOR_THREAD, CHILD_INJECTOR,
                   PARENT_PID, FORKING_THREADS, CURRENT_REGS_BACKUP,
                   LAST_INJECTED_SYSCALL, hooks, nextUid, runs, panicked,
                   issued, injected>>
    /\ UNCHANGED outsideInj

EnterStep ==
    \E t \in Tids :
        \E call \in {<<>>} \cup {<<p>> : p \in PlainPrograms \cup ForkPrograms} :
            \E exec \in BOOLEAN :
                SysEnter(t, call, exec, Programs(Eng, t))

ThreadEnterStep ==
    \E t \in Tids \ {Child} :
        \E call \in {<<>>} \cup {<<p>> : p \in PlainPrograms} :
            SysEnter(t, call, FALSE, ThreadPrograms(Eng))
ForkEnterStep ==
    \E t \in Tids :
        \E call \in {<<>>, <<<<>>>>, <<<<OpSyscall, OpFork(<<>>)>>>>} :
            \E exec \in BOOLEAN :
                SysEnter(t, call, exec, ForkingPrograms(Eng, t))
ReturnStep == \E t \in Tids : SysReturn(t)
GuestStep == \E t \in Tids : GuestNext(t)

NoThread ==
    [st |-> "none", pid |-> 0, ppid |-> 0, asid |-> 0, pc |-> 0,
     regs |-> [r \in RegNames |-> 0], by |-> 0, ip |-> 0, own |-> 0,
     sysno |-> 0, wait |-> 0, kid |-> 0, started |-> FALSE]

InjStatics ==
    /\ INJECTORS = [t \in Tids |-> <<>>]
    /\ RET_SLOT = [a \in Asids |-> <<>>]
    /\ WAITING_FOR_SYSCALL = FALSE
    /\ INJECTOR_BAIL = FALSE
    /\ SHOULD_LOOP_AGAIN = FALSE
    /\ CURRENT_INJECTOR_THREAD = 0
    /\ CHILD_INJECTOR = <<>>
    /\ PARENT_PID = PidNone
    /\ FORKING_THREADS = {}
    /\ CURRENT_REGS_BACKUP = [t \in Tids |-> <<>>]
    /\ LAST_INJECTED_SYSCALL = 0
    /\ hooks = <<>>
    /\ nextUid = 1
    /\ runs = 0
    /\ panicked = FALSE
    /\ issued = [t \in Tids |-> <<>>]
    /\ injected = [t \in Tids |-> <<>>]
    /\ completed = <<>>

\* Threads 1 and 2 of process 1, each about to make its first syscall.
TwoThreads ==
    [t \in Tids |->
        IF t = Child THEN NoThread
        ELSE [NoThread EXCEPT !.st = "user", !.pid = 1, !.asid = ProcessAsid,
                              !.pc = OwnPc(t, 1), !.regs = OwnRegs(t, 1),
                              !.own = 1, !.started = TRUE]]

\* Thread 2 is not a thread of process 1 but a process that process 1 created
\* before any injection, with an address space of its own.
WithOlderChild ==
    [TwoThreads EXCEPT ![2].pid = 2, ![2].ppid = 1, ![2].asid = OtherAsid]

InjInit == thr = TwoThreads /\ InjStatics
OlderChildInit == thr = WithOlderChild /\ InjStatics

\* ------------------------------------------------------------------------
\* Guest memory codecs: GuestType for numbers and arrays (guest_ptr/impls.rs),
\* the read and write bodies derive(GuestType) generates for a struct
\* (panda-macros guest_type/struct_impl.rs), the memory transfers of
\* api/mem.rs, and GuestPtr (guest_ptr.rs).  ARCH_ENDIAN is Endian::Little.

outsideGuest == <<pppVars, cbVars, injVars, ARCH_ENDIAN, tyFields, initVars>>

PageSize == 2
Addrs == 0..(GuestMemSize - 1)
Pages == {a \div PageSize : a \in Addrs}

\* The types of the fields: u8, u16 and [u8; 2].
U8 == [kind |-> "num", size |-> 1, align |-> 1, n |-> 0]
U16 == [kind |-> "num", size |-> 2, align |-> 2, n |-> 0]
U32 == [kind |-> "num", size |-> 4, align |-> 4, n |-> 0]
ArrayU8x2 == [kind |-> "array", size |-> 1, align |-> 1, n |-> 2]

\* #[derive(GuestType)] struct Test { a: u8, b: u16, c: [u8; 2] }
TestFields == <<U8, U16, ArrayU8x2>>

\* padding_needed_for, padded_size, repeat (impls.rs:82-105)
padding_needed_for(size, align) == (align - (size % align)) % align
padded_size(layout) == layout.size + padding_needed_for(layout.size, layout.align)

\* guest_layout of a field type
guest_layout(ty) ==
    IF ty.kind = "num" THEN [size |-> ty.size, align |-> ty.align]
    ELSE [size |-> padded_size([size |-> ty.size, align |-> ty.align]) * ty.n,
          align |-> ty.align]

\* An extend that places the field right after the fields before it.
Layout_extend_packed(layout, field) ==
    [layout |-> [size |-> layout.size + field.size,
                 align |-> IF field.align > layout.align THEN field.align
                           ELSE layout.align],
     offset |-> layout.size]

\* Layout::extend: the layout after the field and the offset of the field.
Layout_extend(layout, field) ==
    [layout |-> [size |-> layout.size + padding_needed_for(layout.size, field.align)
                             + field.size,
                 align |-> IF field.align > layout.align THEN field.align
                           ELSE layout.align],
     offset |-> layout.size + padding_needed_for(layout.size, field.align)]

\* The offset of field i of the struct: the chain of extends from
\* Layout::from_size_align(0, 1).
RECURSIVE LayoutBefore(_, _)
LayoutBefore(fields, i) ==
    IF i = 1 THEN [size |-> 0, align |-> 1]
    ELSE Layout_extend(LayoutBefore(fields, i - 1), guest_layout(fields[i - 1])).layout

FieldOffset(fields, i) ==
    Layout_extend(LayoutBefore(fields, i), guest_layout(fields[i])).offset

\* struct_layout: the extends and pad_to_align
struct_layout(fields) ==
    [size |-> padded_size(LayoutBefore(fields, Len(fields) + 1)),
     align |-> LayoutBefore(fields, Len(fields) + 1).align]

\* to_le_bytes / from_le_bytes of an unsigned number of `size` bytes
RECURSIVE Pow256(_)
Pow256(k) == IF k = 0 THEN 1 ELSE 256 * Pow256(k - 1)
to_le_bytes(v, size) == [i \in 1..size |-> (v \div Pow256(i - 1)) % 256]
RECURSIVE from_le_bytes(_)
from_le_bytes(bytes) ==
    IF bytes = <<>> THEN 0 ELSE Head(bytes) + 256 * from_le_bytes(Tail(bytes))

\* to_be_bytes / from_be_bytes
to_be_bytes(v, size) == [i \in 1..size |-> (v \div Pow256(size - i)) % 256]
RECURSIVE from_be_bytes(_)
from_be_bytes(bytes) ==
    IF bytes = <<>> THEN 0
    ELSE Head(bytes) * Pow256(Len(bytes) - 1) + from_be_bytes(Tail(bytes))

\* A write that encodes little-endian whatever the guest is.
num_to_bytes_le(v, size) == to_le_bytes(v, size)

\* match ARCH_ENDIAN { Big => to_be_bytes, Little => to_le_bytes }
num_to_bytes(v, size) ==
    IF ARCH_ENDIAN = "Big" THEN to_be_bytes(v, size) ELSE to_le_bytes(v, size)

\* match ARCH_ENDIAN { Big => from_be_bytes, Little => from_le_bytes }
num_of_bytes(bytes) ==
    IF ARCH_ENDIAN = "Big" THEN from_be_bytes(bytes) ELSE from_le_bytes(bytes)

\* A transfer of len bytes at addr succeeds when every byte is mapped.
Transfers(addr, len) ==
    \A a \in addr..(addr + len - 1) : a \in Addrs /\ (a \div PageSize) \in gMapped

\* A physical transfer of len bytes at addr succeeds when it lies in the RAM.
InRam(addr, len) == \A a \in addr..(addr + len - 1) : a \in Addrs

\* The status codes of the emulator.
MEMTX_OK == 0
MEMTX_ERROR == 1
MEMTX_DECODE_ERROR == 2

\* A conversion that takes a code it does not know for success.
MemRWStatus_from_lenient(v) ==
    IF v = -1 THEN "GenericErrorRet"
    ELSE IF v = MEMTX_ERROR THEN "MemTxError"
    ELSE IF v = MEMTX_DECODE_ERROR THEN "MemTxDecodeError"
    ELSE "MemTxOk"

\* impl From<i32> for MemRWStatus
MemRWStatus_from(v) ==
    IF v = -1 THEN "GenericErrorRet"
    ELSE IF v = MEMTX_OK THEN "MemTxOk"
    ELSE IF v = MEMTX_ERROR THEN "MemTxError"
    ELSE IF v = MEMTX_DECODE_ERROR THEN "MemTxDecodeError"
    ELSE "Unknown"

\* What a codec call works on: the guest memory, the native transfers made,
\* the access path and the code the emulator gives for a transfer that fails.
Memory(path, fail) == [mem |-> gMem, log |-> <<>>, path |-> path, fail |-> fail]
GuestMem == Memory("virt", MEMTX_ERROR)

\* The status of a native transfer, converted with .into()
NativeStatus(M, done) == MemRWStatus_from(IF done THEN MEMTX_OK ELSE M.fail)

Transfer(rw, addr, len, bytes, status) ==
    [rw |-> rw, addr |-> addr, len |-> len, bytes |-> bytes, status |-> status]

\* virtual_memory_read_into / physical_memory_read_into: Ok(()) on MemTxOk
\* with the buffer filled, the status as Err otherwise.
virtual_memory_read_into(M, addr, len) ==
    [M |-> [M EXCEPT !.log = Append(@, Transfer("read", addr, len,
                                     IF Transfers(addr, len)
                                     THEN [i \in 1..len |-> M.mem[addr + i - 1]]
                                     ELSE <<>>,
                                     NativeStatus(M, Transfers(addr, len))))],
     ok |-> NativeStatus(M, Transfers(addr, len)) = "MemTxOk",
     bytes |-> [i \in 1..len |-> IF Transfers(addr, len) THEN M.mem[addr + i - 1] ELSE 0]]

physical_memory_read_into(M, addr, len) ==
    [M |-> [M EXCEPT !.log = Append(@, Transfer("read_phys", addr, len,
                                     IF InRam(addr, len)
                                     THEN [i \in 1..len |-> M.mem[addr + i - 1]]
                                     ELSE <<>>,
                                     NativeStatus(M, InRam(addr, len))))],
     ok |-> NativeStatus(M, InRam(addr, len)) = "MemTxOk",
     bytes |-> [i \in 1..len |-> IF InRam(addr, len) THEN M.mem[addr + i - 1] ELSE 0]]

\* virtual_memory_write / physical_memory_write: the status the native
\* write gave.
virtual_memory_write(M, addr, bytes) ==
    [M |-> [M EXCEPT
              !.mem = IF Transfers(addr, Len(bytes))
                      THEN [a \in Addrs |->
                              IF a \in addr..(addr + Len(bytes) - 1)
                              THEN bytes[a - addr + 1] ELSE M.mem[a]]
                      ELSE M.mem,
              !.log = Append(@, Transfer("write", addr, Len(bytes), bytes,
                                         NativeStatus(M, Transfers(addr, Len(bytes)))))],
     status |-> NativeStatus(M, Transfers(addr, Len(bytes)))]

physical_memory_write(M, addr, bytes) ==
    [M |-> [M EXCEPT
              !.mem = IF InRam(addr, Len(bytes))
                      THEN [a \in Addrs |->
                              IF a \in addr..(addr + Len(bytes) - 1)
                              THEN bytes[a - addr + 1] ELSE M.mem[a]]
                      ELSE M.mem,
              !.log = Append(@, Transfer("write_phys", addr, Len(bytes), bytes,
                                         NativeStatus(M, InRam(addr, Len(bytes)))))],
     status |-> NativeStatus(M, InRam(addr, Len(bytes)))]

\* impl_for_num read_from_guest / read_from_guest_phys:
\* .or(Err(GuestReadFail))?, then from_be_bytes or from_le_bytes
num_from_bytes(r) ==
    [M |-> r.M, ok |-> r.ok, val |-> IF r.ok THEN num_of_bytes(r.bytes) ELSE 0]

num_read_from_guest(M, ty, ptr) ==
    num_from_bytes(IF M.path = "virt" THEN virtual_memory_read_into(M, ptr, ty.size)
                   ELSE physical_memory_read_into(M, ptr, ty.size))

\* impl_for_num write_to_guest / write_to_guest_phys:
\* virtual_memory_write(cpu, ptr, &bytes); Ok(())
num_write_done(w) == [M |-> w.M, ok |-> TRUE]

num_write_to_guest(M, ty, v, ptr) ==
    num_write_done(IF M.path = "virt"
                   THEN virtual_memory_write(M, ptr, num_to_bytes(v, ty.size))
                   ELSE physical_memory_write(M, ptr, num_to_bytes(v, ty.size)))

\* The element type of an array type.
ElemOf(ty) == [kind |-> "num", size |-> ty.size, align |-> ty.align, n |-> 0]

\* [T; N] read_from_guest: (ptr..).step_by(padded_size).take(N)
\* .filter_map(|ptr| T::read_from_guest(cpu, ptr).ok()), and
\* array_init::from_iter gives None when fewer than N items came.
RECURSIVE array_read_from_guest(_, _, _, _, _)
array_read_item(r, ty, ptr, k, acc) ==
    array_read_from_guest(r.M, ty, ptr, k + 1,
                          IF r.ok THEN Append(acc, r.val) ELSE acc)

array_read_from_guest(M, ty, ptr, k, acc) ==
    IF k = ty.n THEN [M |-> M, ok |-> Len(acc) = ty.n, val |-> acc]
    ELSE array_read_item(
             num_read_from_guest(M, ElemOf(ty), ptr + k * padded_size(guest_layout(ElemOf(ty)))),
             ty, ptr, k, acc)

\* [T; N] write_to_guest: item.write_to_guest(cpu, ptr)? for each item
RECURSIVE array_write_to_guest(_, _, _, _, _)
array_write_item(w, ty, v, ptr, k) ==
    IF w.ok THEN array_write_to_guest(w.M, ty, v, ptr, k + 1) ELSE w

array_write_to_guest(M, ty, v, ptr, k) ==
    IF k = ty.n THEN [M |-> M, ok |-> TRUE]
    ELSE array_write_item(
             num_write_to_guest(M, ElemOf(ty), v[k + 1],
                                ptr + k * padded_size(guest_layout(ElemOf(ty)))),
             ty, v, ptr, k)

\* <field_ty as GuestType>::read_from_guest / write_to_guest
read_from_guest(M, ty, ptr) ==
    IF ty.kind = "num" THEN num_read_from_guest(M, ty, ptr)
    ELSE array_read_from_guest(M, ty, ptr, 0, <<>>)

write_to_guest(M, ty, v, ptr) ==
    IF ty.kind = "num" THEN num_write_to_guest(M, ty, v, ptr)
    ELSE array_write_to_guest(M, ty, v, ptr, 0)

\* The generated read: for each field in declaration order
\* let field = <ty>::read_from_guest(cpu, ptr + offset)?; then Ok(Self {..})
RECURSIVE struct_read_from_guest(_, _, _, _, _)

\* A read that goes on to the next field after a field failed to read.
struct_read_field_goes_on(r, fields, ptr, i, acc) ==
    IF r.ok THEN struct_read_from_guest(r.M, fields, ptr, i + 1, Append(acc, r.val))
    ELSE [struct_read_from_guest(r.M, fields, ptr, i + 1, Append(acc, r.val))
             EXCEPT !.ok = FALSE, !.val = <<>>]

struct_read_field(r, fields, ptr, i, acc) ==
    IF r.ok THEN struct_read_from_guest(r.M, fields, ptr, i + 1, Append(acc, r.val))
    ELSE [M |-> r.M, ok |-> FALSE, val |-> <<>>]

struct_read_from_guest(M, fields, ptr, i, acc) ==
    IF i > Len(fields) THEN [M |-> M, ok |-> TRUE, val |-> acc]
    ELSE struct_read_field(read_from_guest(M, fields[i], ptr + FieldOffset(fields, i)),
                           fields, ptr, i, acc)

\* The generated write: for each field in declaration order
\* <ty>::write_to_guest(&self.field, cpu, ptr + offset)?; then Ok(())
RECURSIVE struct_write_to_guest(_, _, _, _, _)
struct_write_field(w, fields, v, ptr, i) ==
    IF w.ok THEN struct_write_to_guest(w.M, fields, v, ptr, i + 1) ELSE w

struct_write_to_guest(M, fields, v, ptr, i) ==
    IF i > Len(fields) THEN [M |-> M, ok |-> TRUE]
    ELSE struct_write_field(write_to_guest(M, fields[i], v[i], ptr + FieldOffset(fields, i)),
                            fields, v, ptr, i)

\* The closures given to GuestPtr::write: each sets one field of the value.
Mutators == {"a", "b", "c"}
func(f, inner) ==
    IF f = "a" THEN [inner EXCEPT ![1] = 7]
    ELSE IF f = "b" THEN [inner EXCEPT ![2] = 258]
    ELSE [inner EXCEPT ![3] = <<9, 4>>]

\* The values given to write_to_guest and the addresses used.
TestValues == {<<7, 258, <<9, 4>>>>}
TestPtrs == {a \in Addrs : a % struct_layout(TestFields).align = 0
                            /\ a + struct_layout(TestFields).size <= GuestMemSize}

\* GuestPtr::read: guest_type.get_or_try_init(|| T::read_from_guest(cpu, pointer))
GuestPtr_try_init(r) ==
    [M |-> r.M, cache |-> IF r.ok THEN <<r.val>> ELSE <<>>, ok |-> r.ok]

\* A read that goes to the guest memory whether or not a value is cached.
GuestPtr_read_again(M, cache, pointer) ==
    GuestPtr_try_init(struct_read_from_guest(M, TestFields, pointer, 1, <<>>))

GuestPtr_read(M, cache, pointer) ==
    IF cache # <<>> THEN [M |-> M, cache |-> cache, ok |-> TRUE]
    ELSE GuestPtr_try_init(struct_read_from_guest(M, TestFields, pointer, 1, <<>>))

\* A flush that writes the value the cache held before func ran.
inner_before_func(f, inner) == inner

\* The value inner.write_to_guest is called on: the cached value after func.
inner_after_func(f, inner) == func(f, inner)

\* GuestPtr::write: if the cache is empty, read().unwrap(); func(inner);
\* inner.write_to_guest(cpu, self.pointer)
GuestPtr_write_result(w, cache) ==
    [M |-> w.M, cache |-> cache, ret |-> IF w.ok THEN "Ok" ELSE "Err"]

GuestPtr_write_flush(r, pointer, f) ==
    IF ~r.ok THEN [M |-> r.M, cache |-> r.cache, ret |-> "panic"]
    ELSE GuestPtr_write_result(
             struct_write_to_guest(r.M, TestFields, inner_after_func(f, r.cache[1]),
                                   pointer, 1),
             <<func(f, r.cache[1])>>)

GuestPtr_write(M, cache, pointer, f) ==
    GuestPtr_write_flush(GuestPtr_read(M, cache, pointer), pointer, f)

NoGuestCall ==
    [op |-> "none", ptr |-> 0, f |-> "none", before |-> <<>>, mem |-> <<>>,
     log |-> <<>>, ret |-> "Ok", val |-> <<>>]
GuestCall(op, ptr, f, log, ret, val) ==
    [op |-> op, ptr |-> ptr, f |-> f, before |-> gpCache, mem |-> <<gMem>>,
     log |-> log, ret |-> ret, val |-> val]

\* Test::read_from_guest(cpu, ptr)
ReadDone(r, ptr) ==
    /\ lastGuest' = GuestCall("read_from_guest", ptr, "none", r.M.log,
                              IF r.ok THEN "Ok" ELSE "Err", r.val)
    /\ UNCHANGED <<gMem, gMapped, gpPointer, gpCache>>
    /\ UNCHANGED outsideGuest

CodecRead ==
    /\ lastGuest.ret # "panic"
    /\ \E ptr \in TestPtrs :
          ReadDone(struct_read_from_guest(GuestMem, TestFields, ptr, 1, <<>>), ptr)

\* value.write_to_guest(cpu, ptr)
WriteDone(w, ptr, v) ==
    /\ gMem' = w.M.mem
    /\ lastGuest' = GuestCall("write_to_guest", ptr, "none", w.M.log,
                              IF w.ok THEN "Ok" ELSE "Err", v)
    /\ UNCHANGED <<gMapped, gpPointer, gpCache>>
    /\ UNCHANGED outsideGuest

CodecWrite ==
    /\ lastGuest.ret # "panic"
    /\ \E ptr \in TestPtrs, v \in TestValues :
          WriteDone(struct_write_to_guest(GuestMem, TestFields, v, ptr, 1), ptr, v)

\* A pointer built from a pointer that keeps the cached value of its source.
GuestPtr_new_keeps(pointer, cache) == [pointer |-> pointer, cache |-> cache]

\* GuestPtr { pointer, guest_type: OnceCell::new() }, as from, clone, offset,
\* offset_bytes and cast build it; cache is the cache of the source pointer.
GuestPtr_new(pointer, cache) == [pointer |-> pointer, cache |-> <<>>]

\* The pointer in hand becomes the pointer p that the method op returned.
PtrBecomes(op, p) ==
    /\ gpPointer' = p.pointer
    /\ gpCache' = p.cache
    /\ lastGuest' = GuestCall(op, p.pointer, "none", <<>>, "Ok", <<>>)
    /\ UNCHANGED <<gMem, gMapped>>
    /\ UNCHANGED outsideGuest

\* GuestPtr::from(pointer)
PtrFrom ==
    /\ lastGuest.ret # "panic"
    /\ \E ptr \in TestPtrs : PtrBecomes("from", GuestPtr_new(ptr, <<>>))

\* GuestPtr::clone: Self::from(self.pointer)
PtrClone ==
    /\ lastGuest.ret # "panic"
    /\ PtrBecomes("clone", GuestPtr_new(gpPointer, gpCache))

\* GuestPtr::offset(off): pointer + size * off
PtrOffset ==
    /\ lastGuest.ret # "panic"
    /\ \E off \in 0..1 :
          /\ gpPointer + struct_layout(TestFields).size * off <= GuestMemSize
          /\ PtrBecomes("offset",
                        GuestPtr_new(gpPointer + struct_layout(TestFields).size * off,
                                     gpCache))

\* GuestPtr::offset_bytes(bytes): pointer + bytes
PtrOffsetBytes ==
    /\ lastGuest.ret # "panic"
    /\ \E bytes \in {0, 2} :
          /\ gpPointer + bytes <= GuestMemSize
          /\ PtrBecomes("offset_bytes", GuestPtr_new(gpPointer + bytes, gpCache))

\* GuestPtr::cast::<U>, with U the same struct
PtrCast ==
    /\ lastGuest.ret # "panic"
    /\ PtrBecomes("cast", GuestPtr_new(gpPointer, gpCache))

\* GuestPtr::clear_cache
PtrClearCache ==
    /\ lastGuest.ret # "panic"
    /\ gpCache # <<>>
    /\ gpCache' = <<>>
    /\ lastGuest' = GuestCall("clear_cache", gpPointer, "none", <<>>, "Ok", <<>>)
    /\ UNCHANGED <<gMem, gMapped, gpPointer>>
    /\ UNCHANGED outsideGuest

\* GuestPtr::read
PtrReadDone(r) ==
    /\ gpCache' = r.cache
    /\ lastGuest' = GuestCall("read", gpPointer, "none", r.M.log,
                              IF r.ok THEN "Ok" ELSE "Err", r.cache)
    /\ UNCHANGED <<gMem, gMapped, gpPointer>>
    /\ UNCHANGED outsideGuest

PtrRead ==
    /\ lastGuest.ret # "panic"
    /\ PtrReadDone(GuestPtr_read(GuestMem, gpCache, gpPointer))

\* GuestPtr::update: self.clear_cache(); self.read().unwrap();
PtrUpdateDone(r) ==
    /\ gpCache' = r.cache
    /\ lastGuest' = GuestCall("update", gpPointer, "none", r.M.log,
                              IF r.ok THEN "Ok" ELSE "panic", r.cache)
    /\ UNCHANGED <<gMem, gMapped, gpPointer>>
    /\ UNCHANGED outsideGuest

PtrUpdate ==
    /\ lastGuest.ret # "panic"
    /\ PtrUpdateDone(GuestPtr_read(GuestMem, <<>>, gpPointer))

\* GuestPtr::write(func)
PtrWriteDone(r, f) ==
    /\ gMem' = r.M.mem
    /\ gpCache' = r.cache
    /\ lastGuest' = GuestCall("write", gpPointer, f, r.M.log, r.ret, r.cache)
    /\ UNCHANGED <<gMapped, gpPointer>>
    /\ UNCHANGED outsideGuest

PtrWrite ==
    /\ lastGuest.ret # "panic"
    /\ \E f \in Mutators :
          PtrWriteDone(GuestPtr_write(GuestMem, gpCache, gpPointer, f), f)

\* The emulator maps or unmaps a page of the guest.
Remap ==
    /\ lastGuest.ret # "panic"
    /\ \E p \in Pages :
          IF p \in gMapped
          THEN /\ Cardinality(Pages \ gMapped) < MaxUnmapped
               /\ gMapped' = gMapped \ {p}
          ELSE gMapped' = gMapped \cup {p}
    /\ lastGuest' = NoGuestCall
    /\ UNCHANGED <<gMem, gpPointer, gpCache>>
    /\ UNCHANGED outsideGuest

\* The field types and the structs of up to MaxFields fields built from them.
FieldTypes == {U8, U16, U32, ArrayU8x2}
StructTypes == UNION {[1..n -> FieldTypes] : n \in 1..MaxFields}

\* The struct type itself, as the type a codec call is made on.
StructTy == [kind |-> "struct", size |-> 0, align |-> 0, n |-> 0]

\* T::read_from_guest / T::write_to_guest (and the _phys pair, by M.path) for
\* T a number, an array or the struct.
codec_read(M, ty, ptr) ==
    IF ty.kind = "struct" THEN struct_read_from_guest(M, tyFields, ptr, 1, <<>>)
    ELSE read_from_guest(M, ty, ptr)

codec_write(M, ty, v, ptr) ==
    IF ty.kind = "struct" THEN struct_write_to_guest(M, tyFields, v, ptr, 1)
    ELSE write_to_guest(M, ty, v, ptr)

\* The codes the emulator may give for a transfer that failed.
FailCodes == {-1, MEMTX_ERROR, MEMTX_DECODE_ERROR, 3}

\* T::read_from_guest(cpu, ptr)?.write_to_guest(cpu, ptr)
write_back(r, ty, ptr) ==
    IF r.ok THEN [codec_write(r.M, ty, r.val, ptr) EXCEPT !.ok = IF @ THEN "Ok" ELSE "Err"]
    ELSE [M |-> r.M, ok |-> "Err"]

RoundTripDone(w, call) ==
    /\ gMem' = w.M.mem
    /\ lastGuest' = [op |-> "round_trip", ptr |-> call.ptr, f |-> call, before |-> <<>>,
                     mem |-> <<gMem>>, log |-> w.M.log, ret |-> w.ok, val |-> <<>>]
    /\ UNCHANGED <<gMapped, gpPointer, gpCache>>
    /\ UNCHANGED outsideGuest

RoundTrip ==
    \E ty \in {StructTy} \cup {tyFields[i] : i \in DOMAIN tyFields},
       path \in {"virt", "phys"}, fail \in FailCodes, ptr \in {0, 2, 4} :
        RoundTripDone(write_back(codec_read(Memory(path, fail), ty, ptr), ty, ptr),
                      [ty |-> ty, path |-> path, fail |-> fail, ptr |-> ptr])

\* CString::new(name): a name is a sequence of bytes and fails to convert
\* when it holds a 0.
Names == {<<>>, <<114, 97, 109>>, <<114, 0, 109>>}
CString_new(name) == \A i \in DOMAIN name : name[i] # 0

PAGE_SIZE == 1024

\* A map_memory that makes the native call before it looks at the size.
map_memory_maps_first(name, size, addr) ==
    IF ~CString_new(name) THEN [ret |-> "InvalidString", native |-> <<>>]
    ELSE [ret |-> IF size % PAGE_SIZE # 0 THEN "UnalignedPageSize" ELSE "Ok",
          native |-> <<[name |-> name, size |-> size, addr |-> addr]>>]

\* map_memory(name, size, addr)
map_memory(name, size, addr) ==
    IF ~CString_new(name) THEN [ret |-> "InvalidString", native |-> <<>>]
    ELSE IF size % PAGE_SIZE # 0 THEN [ret |-> "UnalignedPageSize", native |-> <<>>]
    ELSE [ret |-> "Ok", native |-> <<[name |-> name, size |-> size, addr |-> addr]>>]

MapMemoryDone(r, call) ==
    /\ lastGuest' = [op |-> "map_memory", ptr |-> call.addr, f |-> call, before |-> <<>>,
                     mem |-> <<gMem>>, log |-> r.native, ret |-> r.ret, val |-> <<>>]
    /\ UNCHANGED <<gMem, gMapped, gpPointer, gpCache>>
    /\ UNCHANGED outsideGuest

MapMemory ==
    \E name \in Names, size \in {0, 1, PAGE_SIZE, PAGE_SIZE + 1, 2 * PAGE_SIZE},
       addr \in {0, 4096} :
        MapMemoryDone(map_memory(name, size, addr),
                      [name |-> name, size |-> size, addr |-> addr])

\* A build of the crate for a guest and a struct.
CodecInit ==
    /\ ARCH_ENDIAN \in {"Little", "Big"}
    /\ tyFields \in StructTypes
    /\ gMem = [a \in Addrs |-> 16 + a]
    /\ gMapped = Pages
    /\ gpPointer = 0
    /\ gpCache = <<>>
    /\ lastGuest = NoGuestCall

GuestInit ==
    /\ ARCH_ENDIAN = "Little"
    /\ tyFields = TestFields
    /\ gMem = [a \in Addrs |-> 16 + a]
    /\ gMapped = Pages
    /\ gpPointer = 0
    /\ gpCache = <<>>
    /\ lastGuest = NoGuestCall

PppInit ==
    /\ siteTy \in {"bool", "int", "unit"}
    /\ siteCALLBACKS = <<>>
    /\ siteLock = FALSE
    /\ lastTrigger = NoTrigger
    /\ lastRemove = NoRemove
    /\ pppNextId = 0
    /\ pppCALLBACKS = [i \in PppIds |-> NoBinding]
    /\ pppLock = FALSE
    /\ pppHeap = [r \in ClosureRefs |-> "free"]
    /\ pppDrops = [r \in ClosureRefs |-> 0]
    /\ stack = <<>>

CbInit ==
    /\ cbNextId = 0
    /\ cbHandles = <<>>
    /\ CALLBACKS = {}
    /\ cbLock = [t \in CbThreads |-> "none"]
    /\ nativeCbs = {}
    /\ cbHeap = [r \in CbRefs |-> "free"]
    /\ cbDrops = [r \in CbRefs |-> 0]
    /\ cbStack = [t \in CbThreads |-> <<>>]
    /\ cbCrashed = FALSE
    /\ nativeCall = NoNativeCall

(***************************************************************************)
(* Initialisation: the init_plugin the #[panda::init] attribute generates  *)
(* (panda-macros/src/lib.rs) and Panda::run / Panda::run_after_init        *)
(* (library_mode/mod.rs).  A step is <<what, which>>.                      *)
(***************************************************************************)
AfterInitFuncs == {1, 2}
FuncSeqs == UNION {[1..n -> AfterInitFuncs] : n \in 0..MaxAfterInit}

outsideInit == <<pppVars, cbVars, injVars, guestVars>>

\* for cb in inventory::iter::<T> { ... }: one step per entry, in inventory order.
inventory_iter(what, n) == [i \in 1..n |-> <<what, i>>]

\* for init_func in init_funcs { init_func() }
run_funcs(fs) == [i \in 1..Len(fs) |-> <<"after_init", fs[i]>>]

NoInit == [op |-> "none", steps |-> <<>>, ret |-> "Ok"]

\* init_plugin: registers every collected callback, then calls the function the
\* attribute is on; `fs` are the functions that function hands to run_after_init,
\* which in a plugin build run at once.
init_plugin_steps(fs) ==
    inventory_iter("panda_register_callback", inventory.Callback)
        \o <<<<"init", 0>>>> \o run_funcs(fs)

init_plugin ==
    /\ ~libpanda
    /\ lastInit.op = "none"
    /\ \E fs \in FuncSeqs :
         lastInit' = [op |-> "init_plugin", steps |-> init_plugin_steps(fs), ret |-> "Ok"]
    /\ UNCHANGED <<libpanda, inventory, AFTER_INIT_FUNCS, LIBRARY_STARTED, pushing>>
    /\ UNCHANGED outsideInit

\* Panda::is_started(): LIBRARY_STARTED.load(Ordering::Relaxed)
is_started(started) == started

\* Panda::run_after_init(func) up to its test: in a plugin build, or once
\* libpanda has started, func runs at once; else the caller goes on to queue it.
\* The test and the push are two accesses with no lock held between them.
run_after_init ==
    /\ lastInit.ret # "panic"
    /\ \E f \in AfterInitFuncs :
         IF libpanda /\ ~is_started(LIBRARY_STARTED)
         THEN /\ f \notin pushing
              /\ Len(AFTER_INIT_FUNCS) + Cardinality(pushing) < MaxAfterInit
              /\ pushing' = pushing \cup {f}
              /\ UNCHANGED lastInit
         ELSE /\ lastInit' = [op |-> "run_after_init", steps |-> run_funcs(<<f>>),
                              ret |-> "Ok"]
              /\ UNCHANGED pushing
    /\ UNCHANGED <<libpanda, inventory, AFTER_INIT_FUNCS, LIBRARY_STARTED>>
    /\ UNCHANGED outsideInit

\* AFTER_INIT_FUNCS.lock().unwrap().push(Box::new(func))
run_after_init_push ==
    /\ lastInit.ret # "panic"
    /\ \E f \in pushing :
         /\ AFTER_INIT_FUNCS' = Append(AFTER_INIT_FUNCS, f)
         /\ pushing' = pushing \ {f}
    /\ UNCHANGED <<libpanda, inventory, LIBRARY_STARTED, lastInit>>
    /\ UNCHANGED outsideInit

\* Panda::run up to the point where panda_run takes over the thread.
Panda_run_steps(started, init_funcs) ==
    inventory_iter("panda_register_callback", inventory.Callback)
        \o (IF started THEN <<>>
            ELSE <<<<"panda_init", 0>>>>
                   \o inventory_iter("PPPCallbackSetup", inventory.PPPCallbackSetup)
                   \o run_funcs(init_funcs)
                   \o <<<<"panda_run", 0>>>>)

Panda_run ==
    /\ lastInit.ret # "panic"
    /\ IF ~libpanda
       THEN /\ lastInit' = [op |-> "Panda::run", steps |-> <<>>, ret |-> "panic"]
            /\ UNCHANGED <<AFTER_INIT_FUNCS, LIBRARY_STARTED>>
       ELSE /\ lastInit' = [op |-> "Panda::run",
                            steps |-> Panda_run_steps(LIBRARY_STARTED, AFTER_INIT_FUNCS),
                            ret |-> IF LIBRARY_STARTED THEN "panic" ELSE "Ok"]
            /\ LIBRARY_STARTED' = TRUE
            /\ AFTER_INIT_FUNCS' = IF LIBRARY_STARTED THEN AFTER_INIT_FUNCS ELSE <<>>
    /\ UNCHANGED <<libpanda, inventory, pushing>>
    /\ UNCHANGED outsideInit

\* panda_run returns and Panda::run with it.
Panda_run_returns ==
    /\ lastInit.ret # "panic"
    /\ LIBRARY_STARTED
    /\ LIBRARY_STARTED' = FALSE
    /\ UNCHANGED <<libpanda, inventory, AFTER_INIT_FUNCS, pushing, lastInit>>
    /\ UNCHANGED outsideInit

\* A library build with one callback and one PPP-setup thunk, not yet run.
BootInit ==
    /\ libpanda = TRUE
    /\ inventory = [Callback |-> 1, PPPCallbackSetup |-> 1]
    /\ AFTER_INIT_FUNCS = <<>>
    /\ LIBRARY_STARTED = FALSE
    /\ pushing = {}
    /\ lastInit = NoInit

\* Every build and every inventory.
AnyBootInit ==
    /\ libpanda \in BOOLEAN
    /\ inventory \in [Callback : 0..MaxStatic, PPPCallbackSetup : 0..MaxStatic]
    /\ AFTER_INIT_FUNCS = <<>>
    /\ LIBRARY_STARTED = FALSE
    /\ pushing = {}
    /\ lastInit = NoInit

Init == PppInit /\ CbInit /\ InjInit /\ GuestInit /\ BootInit

\* The export site used through its own functions.
NextSite ==
    \/ CallAdd \/ CallRemove \/ CallTrigger
    \/ add_callback_with_context \/ remove_callback_with_context
    \/ TriggerLock \/ TriggerInvoke \/ SubscriberReturn \/ TriggerReturn

\* The export site together with the PppCallback handles subscribed to it.
NextPpp ==
    \/ CallAdd \/ CallRemove \/ CallTrigger
    \/ add_callback_with_context \/ remove_callback_with_context
    \/ TriggerLock \/ TriggerInvoke \/ SubscriberReturn \/ TriggerReturn
    \/ PppNew \/ CallPppInstall \/ CallPppEnable \/ CallPppDisable
    \/ PppInstallEnable \/ PppInstallInsert
    \/ PppEnableLock \/ PppEnableDone \/ PppDisableLock \/ PppDisableDone

NextCallback ==
    \/ CallbackNew \/ CallInstall \/ CallEnable \/ CallDisable
    \/ InstallRegister \/ InstallInsert \/ ReadLock \/ Enable \/ Disable
    \/ NativeInvoke \/ NativeInvokeDangling \/ ClosureReturn

\* The guest memory codecs and a GuestPtr.
NextGuest ==
    \/ CodecRead \/ CodecWrite
    \/ PtrFrom \/ PtrClone \/ PtrOffset \/ PtrOffsetBytes \/ PtrCast
    \/ PtrClearCache \/ PtrRead \/ PtrUpdate \/ PtrWrite
    \/ Remap

InitGuest == Init /\ siteTy = "unit"
SpecGuest == InitGuest /\ [][NextGuest]_vars

\* The codecs of every struct type, byte order and access path, and map_memory.
NextCodec == RoundTrip \/ MapMemory

InitCodec == PppInit /\ CbInit /\ InjInit /\ CodecInit /\ BootInit /\ siteTy = "unit"
SpecCodec == InitCodec /\ [][NextCodec]_vars

\* Initialisation of a plugin and of a library build.
NextBoot ==
    \/ init_plugin \/ run_after_init \/ run_after_init_push
    \/ Panda_run \/ Panda_run_returns

InitBoot == PppInit /\ CbInit /\ InjInit /\ GuestInit /\ AnyBootInit /\ siteTy = "unit"
SpecBoot == InitBoot /\ [][NextBoot]_vars

\* The Callback closure registry.
InitCallback == Init /\ siteTy = "unit"
SpecCallback == InitCallback /\ [][NextCallback]_vars

\* The syscall injection engine and the guest it injects into.
NextInject == EnterStep \/ ReturnStep \/ GuestStep

InitInject == Init /\ siteTy = "unit"
SpecInject == InitInject /\ [][NextInject]_vars

\* The engine injecting into the two threads of a process that does not fork.
NextInjectThreads == ThreadEnterStep \/ ReturnStep

InitInjectThreads == Init /\ siteTy = "unit"
SpecInjectThreads == InitInjectThreads /\ [][NextInjectThreads]_vars

\* The engine running injectors that fork or inject nothing.
NextInjectFork == ForkEnterStep \/ ReturnStep \/ GuestStep

InitInjectFork == Init /\ siteTy = "unit"
SpecInjectFork == InitInjectFork /\ [][NextInjectFork]_vars

\* The same engine when process 1 has a child that it created before any injection.
InitInjectFamily ==
    PppInit /\ CbInit /\ OlderChildInit /\ GuestInit /\ BootInit /\ siteTy = "unit"
SpecInjectFamily == InitInjectFamily /\ [][NextInjectFork]_vars

\* A site that returns bool or an integer.
InitSite == Init /\ siteTy # "unit"
SpecSite == InitSite /\ [][NextSite]_vars

\* A site without a return type, with closure handles.
InitPpp == Init /\ siteTy = "unit"
SpecPpp == InitPpp /\ [][NextPpp]_vars

\* ------------------------------------------------------------------------
\* Properties of the export site.

\* Some frame below the top is a subscriber being run by trigger.
InsideSubscriber == \E i \in 1..(Len(stack) - 1) : stack[i].op = "sub"

\* The top frame waits for a mutex that a frame below it holds.
SelfDeadlocked ==
    /\ stack # <<>>
    /\ Top.pc = "lock"
    /\ \/ Top.op \in {"add", "remove", "trigger"} /\ siteLock
       \/ Top.op \in {"ppp_enable", "ppp_disable"} /\ pppLock

\* C7: a subscriber run by trigger can call add_callback, remove_callback or
\* trigger on the same site, directly or through PppCallback::enable/disable,
\* and the call completes: it never waits for the mutex trigger is holding.
C7_ReentrantCallCompletes == ~(InsideSubscriber /\ SelfDeadlocked)

\* C8: a completed trigger has called every subscriber of the list exactly
\* once, in list order, each with its own stored context, whatever the
\* earlier subscribers returned.
C8_TriggerCallsEverySubscriberInOrder ==
    lastTrigger.valid =>
        /\ Len(lastTrigger.calls) = Len(lastTrigger.subs)
        /\ \A i \in 1..Len(lastTrigger.subs) :
              /\ lastTrigger.calls[i].f = lastTrigger.subs[i].f
              /\ lastTrigger.calls[i].c = lastTrigger.subs[i].c

\* Three subscribers were called although the first one already returned
\* true (or a nonzero value).
C8_Witness ==
    /\ lastTrigger.valid
    /\ Len(lastTrigger.calls) = 3
    /\ lastTrigger.calls[1].ret # callback_fold_default(siteTy)
    /\ lastTrigger.calls[1].c # lastTrigger.calls[2].c

\* C9: on a bool site trigger returns the OR of all subscriber results, and
\* false when there are no subscribers.
C9_BoolFoldIsOr ==
    (lastTrigger.valid /\ siteTy = "bool") =>
        lastTrigger.ret =
            (\E i \in 1..Len(lastTrigger.calls) : lastTrigger.calls[i].ret)

\* Subscribers returned [false, true, false] and trigger returned true.
C9_Witness ==
    /\ lastTrigger.valid /\ siteTy = "bool"
    /\ Len(lastTrigger.calls) = 3
    /\ lastTrigger.calls[1].ret = FALSE
    /\ lastTrigger.calls[2].ret = TRUE
    /\ lastTrigger.calls[3].ret = FALSE
    /\ lastTrigger.ret = TRUE

\* The first nonzero result of the calls, or zero.
FirstNonzero(calls) ==
    LET nz == {i \in 1..Len(calls) : calls[i].ret # 0}
    IN IF nz = {} THEN 0
       ELSE calls[CHOOSE i \in nz : \A j \in nz : i <= j].ret

\* C10: on an integer site trigger returns the first nonzero subscriber
\* result in list order, or zero when all are zero or there are none.
C10_IntFoldIsFirstNonzero ==
    (lastTrigger.valid /\ siteTy = "int") =>
        lastTrigger.ret = FirstNonzero(lastTrigger.calls)

\* Subscribers returned [0, 5, 7] and trigger returned 5: not the sum 12,
\* not the last value 7.
C10_Witness ==
    /\ lastTrigger.valid /\ siteTy = "int"
    /\ Len(lastTrigger.calls) = 3
    /\ lastTrigger.calls[1].ret = 0
    /\ lastTrigger.calls[2].ret = 5
    /\ lastTrigger.calls[3].ret = 7
    /\ lastTrigger.ret = 5

\* ------------------------------------------------------------------------
\* Properties of the Callback closure registry.

\* Thread t has just replaced the binding of slot id: its install frame
\* returns in this step and the slot was bound before.
Overwrites(t, id) ==
    /\ cbStack[t] # <<>>
    /\ CbTop(t).op = "install" /\ CbTop(t).pc = "write" /\ CbTop(t).id = id
    /\ BindingsOf(CALLBACKS, id) # {}
    /\ cbStack'[t] = CbReturn(t)

\* C4: installing a second closure into a bound slot invokes the first
\* closure's drop function exactly once (once in the replacing step, and
\* never again), and leaves exactly one binding for the slot: the new one.
C4_ReplaceDropsOldOnce ==
    /\ [][\A t \in CbThreads, id \in CbIds :
            Overwrites(t, id) =>
               /\ \A b \in BindingsOf(CALLBACKS, id) :
                     /\ cbDrops[b.closure_ref] = 0
                     /\ cbDrops'[b.closure_ref] = 1
               /\ Cardinality(BindingsOf(CALLBACKS', id)) = 1
               /\ \A b \in BindingsOf(CALLBACKS', id) :
                     b.closure_ref = CbTop(t).ref]_vars
    /\ [](\A r \in CbRefs : cbDrops[r] <= 1)
    /\ [](\A id \in CbIds : Cardinality(BindingsOf(CALLBACKS, id)) <= 1)

\* A slot holds its second closure and the first one was dropped once.
C4_Witness ==
    \E b \in CALLBACKS :
        /\ b.closure_ref = 2
        /\ cbHeap[1] = "dropped" /\ cbDrops[1] = 1
        /\ cbHeap[2] = "live"
        /\ Cardinality(BindingsOf(CALLBACKS, b.id)) = 1

\* C5: after a binding is overwritten the native side holds no registration
\* whose context pointer refers to the dropped closure.
C5_NoRegistrationOfDroppedClosure ==
    \A c \in nativeCbs : cbHeap[c.ctx] # "dropped"

\* Thread t is inside disable(), called from the closure that is bound to
\* the slot being disabled.
DisablingOwnSlot(t) ==
    /\ Len(cbStack[t]) = 2
    /\ CbTop(t).op = "disable"
    /\ cbStack[t][1].op = "closure"
    /\ \E b \in BindingsOf(CALLBACKS, CbTop(t).id) : b.closure_ref = cbStack[t][1].ref

\* C6: disable() called on a slot from inside the closure running for that
\* slot never waits for a lock its own thread holds, returns to the closure
\* without dropping it or touching the registry, and no closure is ever
\* freed twice.
C6_DisableInsideClosure ==
    /\ [](\A t \in CbThreads :
            (DisablingOwnSlot(t) /\ CbTop(t).pc = "lock") =>
                \A u \in CbThreads : cbLock[u] = "none")
    /\ [][\A t \in CbThreads :
            (DisablingOwnSlot(t) /\ CbTop(t).pc = "locked" /\ cbStack'[t] # cbStack[t]) =>
               /\ cbStack'[t] = CbReturn(t)
               /\ cbHeap' = cbHeap /\ cbDrops' = cbDrops /\ CALLBACKS' = CALLBACKS
               /\ cbHeap[cbStack[t][1].ref] = "live"]_vars
    /\ [](\A r \in CbRefs : cbDrops[r] <= 1)

\* A closure has called disable() on its own slot and got control back: it
\* is still live, still bound, and its registration is inactive.
C6_Witness ==
    \E t \in CbThreads :
        /\ Len(cbStack[t]) = 1
        /\ CbTop(t).op = "closure" /\ CbTop(t).pc = "returned" /\ CbTop(t).did = "disable"
        /\ cbHeap[CbTop(t).ref] = "live" /\ cbDrops[CbTop(t).ref] = 0
        /\ \E b \in CALLBACKS : b.closure_ref = CbTop(t).ref
        /\ \E c \in nativeCbs : c.ctx = CbTop(t).ref /\ ~c.enabled

\* ------------------------------------------------------------------------
\* Properties of the syscall injection engine.

\* The i-th and the k-th injected syscall thread t ran are in queue order:
\* an earlier injector's before a later one's, one injector's in program order.
InOrder(t, i, k) ==
    \/ issued[t][i].by < issued[t][k].by
    \/ /\ issued[t][i].by = issued[t][k].by
       /\ issued[t][i].ip < issued[t][k].ip

\* The syscall injector `by` set up as its ip-th was run before the k-th one.
RanBefore(t, by, ip, k) ==
    \E i \in 1..(k - 1) : issued[t][i].by = by /\ issued[t][i].ip = ip

\* Injector `by` of thread t was queued by run_injector.
Queued(t, by) ==
    \E m \in DOMAIN injected[t] : injected[t][m].by = by /\ ~injected[t][m].child

\* C1: of two injectors queued with run_injector for the same thread, every
\* syscall the first one injects is issued, in its program order, before any
\* syscall of the second one.
C1_InjectorFifo ==
    \A t \in Tids :
        /\ \A i, k \in DOMAIN issued[t] :
               (i < k /\ Queued(t, issued[t][i].by) /\ Queued(t, issued[t][k].by))
                   => InOrder(t, i, k)
        /\ \A k \in DOMAIN issued[t] : \A m \in DOMAIN injected[t] :
               (/\ Queued(t, issued[t][k].by)
                /\ ~injected[t][m].child
                /\ injected[t][m].by < issued[t][k].by)
                   => RanBefore(t, injected[t][m].by, injected[t][m].ip, k)

\* C2: when the last injector queued for a thread completes without bailing,
\* the syscall-number and argument registers hold what they held when the
\* injection started, and the restore wrote the backed-up registers only.
C2_RegistersRestored ==
    \A n \in DOMAIN completed :
        LET d == completed[n]
        IN  (d.how = "ready" /\ ~d.child) =>
               /\ \A r \in BackedUpRegs : d.post[r] = d.start[1][r]
               /\ \A r \in RegNames \ BackedUpRegs : d.post[r] = d.pre[r]
               /\ d.last => \A r \in BackedUpRegs : thr[d.t].regs[r] = d.chain[1][r]

C2_Witness ==
    \E n \in DOMAIN completed :
        LET d == completed[n]
        IN  /\ d.how = "ready" /\ ~d.child /\ d.last
            /\ d.uid = 2 /\ d.len > 0
            /\ \A r \in {"RAX", "RDI", "RSI"} : d.pre[r] # d.post[r]
            /\ d.pre["RCX"] # d.chain[1]["RCX"]
            /\ d.chain # d.start
            /\ d.rets = <<KernelRet(InjectedNum(d.uid, 1))>>

\* Thread c is in a syscall that returns in this step, a thread of its parent
\* process is inside fork(), and a child injector is stashed.
ForkChildReturns(c) ==
    /\ thr[c].st = "kernel" /\ thr'[c].st # "kernel"
    /\ CHILD_INJECTOR # <<>>
    /\ \E f \in FORKING_THREADS \ {c} : thr[f].pid = thr[c].ppid

\* The future at the head of c's queue is a fork child's and was never polled.
ChildInjectorWaits(c) ==
    /\ INJECTORS[c] # <<>>
    /\ INJECTORS[c][1].child
    /\ INJECTORS[c][1].ip = 1 /\ INJECTORS[c][1].cell = NoCell

\* In this step the future at the head of c's queue was polled.
HeadPolled(c) ==
    \/ \E n \in DOMAIN completed' : completed'[n].uid = INJECTORS[c][1].uid
    \/ /\ INJECTORS'[c] # <<>>
       /\ INJECTORS'[c][1].uid = INJECTORS[c][1].uid
       /\ INJECTORS'[c][1].cell # NoCell

\* C3: the syscall return seen on a child of a forking thread queues the
\* stashed child injector for the child thread and restarts its syscall, the
\* child's next syscall entry polls it, and its completion restores the
\* registers the parent had when its injection started.
C3_ForkHandOff ==
    /\ [][\A c \in Tids :
            /\ ForkChildReturns(c) =>
                   /\ INJECTORS'[c] =
                         Append(INJECTORS[c],
                                InjectorFuture(nextUid, CHILD_INJECTOR[1].prog, TRUE,
                                               CHILD_INJECTOR[1].regs,
                                               CHILD_INJECTOR[1].start))
                   /\ CHILD_INJECTOR[1].regs = SyscallRegs_backup(CHILD_INJECTOR[1].start[1])
                   /\ CHILD_INJECTOR' = <<>>
                   /\ thr'[c].st = "user"
            /\ (ChildInjectorWaits(c) /\ thr[c].st = "user" /\ thr'[c] # thr[c])
                   => HeadPolled(c)]_vars
    /\ [](\A n \in DOMAIN completed :
             (completed[n].child /\ completed[n].how = "ready") =>
                 /\ \A r \in BackedUpRegs :
                        completed[n].post[r] = completed[n].start[1][r]
                 /\ \A r \in BackedUpRegs :
                        completed[n].last => thr[completed[n].t].regs[r] = completed[n].start[1][r])

C3_Witness ==
    \E n \in DOMAIN completed :
        LET d == completed[n]
        IN  /\ d.child /\ d.how = "ready"
            /\ d.t = Child
            /\ \E r \in BackedUpRegs : d.pre[r] # d.post[r]
            /\ thr[Child].regs[SYSCALL_NUM_REG] = d.start[1][SYSCALL_NUM_REG]

\* ------------------------------------------------------------------------
\* The entries of list other than the pair (f, c), in order.
Without(list, f, c) == SelectSeq(list, LAMBDA e : ~(e.f = f /\ e.c = c))
Matches(list, f, c) == {i \in DOMAIN list : list[i].f = f /\ list[i].c = c}

\* C11: remove_callback_with_context(f, c) takes out of the list exactly the
\* subscribers whose function pointer and context both equal f and c and
\* reports whether there was one; when there is none the list is unchanged
\* and the call returns false.
C11_RemoveNeedsExactMatch ==
    lastRemove.valid =>
        /\ siteCALLBACKS = Without(lastRemove.before, lastRemove.f, lastRemove.c)
        /\ lastRemove.ret = (Matches(lastRemove.before, lastRemove.f, lastRemove.c) # {})
        /\ Matches(lastRemove.before, lastRemove.f, lastRemove.c) = {} =>
               siteCALLBACKS = lastRemove.before /\ lastRemove.ret = FALSE

\* A remove of a pair that is not subscribed, while a subscriber with the same
\* function pointer and another context, and one with the same context and
\* another function pointer, are.
C11_Witness ==
    /\ lastRemove.valid /\ ~lastRemove.ret
    /\ \E i \in DOMAIN lastRemove.before :
          lastRemove.before[i].f = lastRemove.f /\ lastRemove.before[i].c # lastRemove.c
    /\ \E i \in DOMAIN lastRemove.before :
          lastRemove.before[i].f # lastRemove.f /\ lastRemove.before[i].c = lastRemove.c
    /\ siteCALLBACKS = lastRemove.before

\* C12: when a closure is installed through a PppCallback handle that already
\* holds one, the drop function stored with the first closure is invoked
\* exactly once: its double box is reclaimed and never reclaimed again.
C12_PppReplaceDropsOldOnce ==
    [][\A id \in PppIds :
          (/\ pppCALLBACKS[id].present
           /\ pppCALLBACKS'[id].present
           /\ pppCALLBACKS'[id].closure_ref # pppCALLBACKS[id].closure_ref)
          => /\ pppDrops'[pppCALLBACKS[id].closure_ref] = 1
             /\ pppHeap'[pppCALLBACKS[id].closure_ref] = "dropped"]_vars

\* ------------------------------------------------------------------------
\* Thread t takes a step inside enable() or disable() of slot id.
InEnableDisable(t, id) ==
    /\ cbStack[t] # <<>>
    /\ CbTop(t).op \in {"enable", "disable"} /\ CbTop(t).id = id
    /\ cbStack'[t] # cbStack[t]

\* Thread t's enable() or disable() of slot id looks the slot up and returns.
EnableDisableActs(t, id) ==
    InEnableDisable(t, id) /\ CbTop(t).pc = "locked"

\* The native list with the active bit of the triple (kind, ctx) set to on
\* and nothing else changed.
ActiveSetWith(kind, ctx, on) ==
    {c \in nativeCbs : ~(c.kind = kind /\ c.ctx = ctx)}
        \cup {[kind |-> kind, ctx |-> ctx, enabled |-> on] :
                 c \in {x \in nativeCbs : x.kind = kind /\ x.ctx = ctx}}

\* C13: no step of enable() or disable() changes the slot registry or drops
\* a closure; on a slot without a binding they make no native call, leave
\* the native list alone and return; on a bound slot their one native call
\* names the binding's (kind, trampoline, context) triple and only its
\* active bit changes.
C13_EnableDisableKeepRegistry ==
    [][\A t \in CbThreads, id \in CbIds :
          /\ InEnableDisable(t, id) =>
                /\ CALLBACKS' = CALLBACKS
                /\ cbHeap' = cbHeap /\ cbDrops' = cbDrops
                /\ ~cbCrashed'
          /\ EnableDisableActs(t, id) =>
                /\ cbStack'[t] = CbReturn(t)
                /\ IF BindingsOf(CALLBACKS, id) = {}
                   THEN nativeCall' = NoNativeCall /\ nativeCbs' = nativeCbs
                   ELSE \A b \in BindingsOf(CALLBACKS, id) :
                          /\ nativeCall' = NativeCall(CbTop(t).op, b.cb_kind, b.closure_ref)
                          /\ nativeCbs' = ActiveSetWith(b.cb_kind, b.closure_ref,
                                                        CbTop(t).op = "enable")
          /\ (InEnableDisable(t, id) /\ CbTop(t).pc # "locked") =>
                nativeCbs' = nativeCbs /\ nativeCall' = nativeCall]_vars

\* disable() has just returned on a bound slot: the triple is inactive, the
\* binding is still in the registry and its closure was not dropped, while
\* another slot has no binding.
C13_Witness ==
    /\ nativeCall.op = "disable"
    /\ \E b \in CALLBACKS :
          /\ nativeCall = NativeCall("disable", b.cb_kind, b.closure_ref)
          /\ [kind |-> b.cb_kind, ctx |-> b.closure_ref, enabled |-> FALSE] \in nativeCbs
          /\ cbHeap[b.closure_ref] = "live" /\ cbDrops[b.closure_ref] = 0
    /\ \E id \in CbIds : id < cbNextId /\ BindingsOf(CALLBACKS, id) = {}

\* ------------------------------------------------------------------------
\* The names of the futures in queue q, and of the futures the last event
\* popped from the queue of thread t, in order.
UidsOf(q) == [k \in DOMAIN q |-> q[k].uid]
PoppedOn(log, t) == UidsOf(SelectSeq(log, LAMBDA d : d.t = t))

\* A future nothing has polled yet.
Unpolled(f) == (f.child \/ ~f.started) /\ f.ip = 1 /\ f.cell = NoCell

\* This step is a syscall entry of thread t during which run_injector queued
\* a future.
RunInjectorOn(t) ==
    /\ runs' = runs + 1
    /\ \/ \E k \in DOMAIN INJECTORS'[t] : INJECTORS'[t][k].uid = nextUid
       \/ \E n \in DOMAIN completed' :
             completed'[n].uid = nextUid /\ completed'[n].t = t

\* C14: run_injector on a thread with an unfinished injector puts the new
\* injector behind the ones already queued for the thread, and an injector
\* is never polled while one queued before it on its thread is unfinished:
\* the futures leave a queue in the order they were put in, and every future
\* behind the head of a queue is unpolled.
C14_QueuedBehindUnfinished ==
    /\ [](\A t \in Tids : \A k \in DOMAIN INJECTORS[t] :
            k > 1 => Unpolled(INJECTORS[t][k]))
    /\ [][\A t \in Tids :
            (INJECTORS[t] # <<>> /\ RunInjectorOn(t)) =>
                PoppedOn(completed', t) \o UidsOf(INJECTORS'[t])
                    = UidsOf(INJECTORS[t]) \o <<nextUid>>]_vars

\* Two injectors wait behind one that was polled and awaits its syscall.
C14_Witness ==
    \E t \in Tids :
        /\ Len(INJECTORS[t]) = 3
        /\ INJECTORS[t][1].cell = Unset /\ INJECTORS[t][1].started
        /\ \A k \in 2..3 : /\ ~INJECTORS[t][k].child
                            /\ INJECTORS[t][k].prog # <<>>
                            /\ Unpolled(INJECTORS[t][k])

\* ------------------------------------------------------------------------
\* The first future the step pops from the queue of thread t is entry n.
FirstPoppedOn(log, t, n) == log[n].t = t /\ \A m \in 1..(n - 1) : log[m].t # t

\* C15: an injector that awaits bail_no_restore_regs is popped from the
\* queue of its thread like one that completed: it was at the head, it is in
\* the queue no more, and the futures behind it stay queued in their order.
\* Its backup is not written to the registers: they are what they were when
\* the event polled it, and when the queue is left empty the thread goes on
\* with them.
C15_BailPopsWithoutRestore ==
    [][\A n \in DOMAIN completed' :
          LET d == completed'[n]
          IN  d.how = "bail" =>
                /\ \A k \in DOMAIN INJECTORS'[d.t] : INJECTORS'[d.t][k].uid # d.uid
                /\ \E k \in DOMAIN INJECTORS[d.t] : INJECTORS[d.t][k].uid = d.uid
                /\ \E new \in {<<>>, <<nextUid>>} :
                      PoppedOn(completed', d.t) \o UidsOf(INJECTORS'[d.t])
                          = UidsOf(INJECTORS[d.t]) \o new
                /\ FirstPoppedOn(completed', d.t, n) =>
                      /\ INJECTORS[d.t][1].uid = d.uid
                      /\ d.post = thr[d.t].regs
                /\ d.last => thr'[d.t].regs = d.post
                /\ d.last = (d.uid = INJECTORS[d.t][Len(INJECTORS[d.t])].uid
                               /\ runs' = runs)]_vars

\* An injector bailed after its injected syscall returned, the queue of its
\* thread is empty, and the thread's syscall-number and first argument
\* registers are not the ones the injector backed up.
C15_Witness ==
    \E n \in DOMAIN completed :
        LET d == completed[n]
        IN  /\ d.how = "bail" /\ d.last
            /\ INJECTORS[d.t] = <<>>
            /\ thr[d.t].regs = d.post
            /\ d.post[SYSCALL_NUM_REG] # d.start[1][SYSCALL_NUM_REG]
            /\ d.post[SYSCALL_ARGS[1]] # d.start[1][SYSCALL_ARGS[1]]
            /\ d.post[SYSCALL_NUM_REG] = KernelRet(InjectedNum(d.uid, 1))

\* ---------------------------------------------------------------------
\* Guest memory codecs
\* ---------------------------------------------------------------------

\* The native transfers of struct Test { a: u8, b: u16, c: [u8; 2] } at p, by
\* field: a at p, b at p + 2 after one byte of padding, c[0] and c[1] at p + 4
\* and p + 5.
TestTransfers(p) ==
    << <<[addr |-> p, len |-> 1]>>,
       <<[addr |-> p + 2, len |-> 2]>>,
       <<[addr |-> p + 4, len |-> 1], [addr |-> p + 5, len |-> 1]>> >>

\* The bytes of the value v of struct Test, by field and transfer.
TestBytes(v) ==
    << << <<v[1]>> >>,
       << <<v[2] % 256, v[2] \div 256>> >>,
       << <<v[3][1]>>, <<v[3][2]>> >> >>

\* The value of struct Test that the memory holds at p.
TestAt(mem, p) ==
    <<mem[p], mem[p + 2] + 256 * mem[p + 3], <<mem[p + 4], mem[p + 5]>>>>

\* Whether every byte of the transfer t lies in a mapped page of two bytes.
Reaches(t) == \A a \in t.addr..(t.addr + t.len - 1) : (a \div 2) \in gMapped

FieldMapped(p, i) ==
    \A j \in 1..Len(TestTransfers(p)[i]) : Reaches(TestTransfers(p)[i][j])

ReadOf(mem, t) ==
    [rw |-> "read", addr |-> t.addr, len |-> t.len,
     bytes |-> IF Reaches(t) THEN [k \in 1..t.len |-> mem[t.addr + k - 1]] ELSE <<>>,
     status |-> IF Reaches(t) THEN "MemTxOk" ELSE "MemTxError"]

WriteOf(bytes, t) ==
    [rw |-> "write", addr |-> t.addr, len |-> t.len, bytes |-> bytes,
     status |-> IF Reaches(t) THEN "MemTxOk" ELSE "MemTxError"]

FieldReads(mem, p, i) ==
    [j \in 1..Len(TestTransfers(p)[i]) |-> ReadOf(mem, TestTransfers(p)[i][j])]

FieldWrites(v, p, i) ==
    [j \in 1..Len(TestTransfers(p)[i]) |->
        WriteOf(TestBytes(v)[i][j], TestTransfers(p)[i][j])]

\* The first field of the struct at p that has an unmapped byte, 4 if none.
FirstUnmapped(p) ==
    IF ~FieldMapped(p, 1) THEN 1
    ELSE IF ~FieldMapped(p, 2) THEN 2
    ELSE IF ~FieldMapped(p, 3) THEN 3 ELSE 4

\* The reads of the fields 1..n of the struct at p, in declaration order.
ReadsUpTo(mem, p, n) ==
    IF n = 1 THEN FieldReads(mem, p, 1)
    ELSE IF n = 2 THEN FieldReads(mem, p, 1) \o FieldReads(mem, p, 2)
    ELSE FieldReads(mem, p, 1) \o FieldReads(mem, p, 2) \o FieldReads(mem, p, 3)

AllWrites(v, p) == FieldWrites(v, p, 1) \o FieldWrites(v, p, 2) \o FieldWrites(v, p, 3)

TransferFailed(k) == lastGuest.log[k].status # "MemTxOk"

\* C17: writing a composite value writes its fields in declaration order, and
\* a write failure on a field aborts the remaining field writes and makes the
\* whole write return failure.
C17_WriteAbortsOnFailure ==
    lastGuest.op = "write_to_guest" =>
        /\ Len(lastGuest.log) <= Len(AllWrites(lastGuest.val, lastGuest.ptr))
        /\ lastGuest.log = SubSeq(AllWrites(lastGuest.val, lastGuest.ptr),
                                  1, Len(lastGuest.log))
        /\ \A k \in 1..Len(lastGuest.log) :
              TransferFailed(k) => k = Len(lastGuest.log) /\ lastGuest.ret = "Err"

\* C18: whenever a native transfer underlying a codec read or write returns a
\* status other than MemTxOk, the codec operation returns a failure to its
\* caller.
C18_TransferFailuresPropagate ==
    (/\ lastGuest.op \in {"read_from_guest", "write_to_guest"}
     /\ \E k \in 1..Len(lastGuest.log) : TransferFailed(k))
        => lastGuest.ret = "Err"

\* The value the closure f of GuestPtr::write leaves in place of inner.
Mutated(f, inner) ==
    IF f = "a" THEN <<7, inner[2], inner[3]>>
    ELSE IF f = "b" THEN <<inner[1], 258, inner[3]>>
    ELSE <<inner[1], inner[2], <<9, 4>>>>

\* The value GuestPtr::write applied its closure to: the cached one, and the
\* one the memory held at the pointer when the cache was empty.
InnerOfWrite ==
    IF lastGuest.before = <<>> THEN TestAt(lastGuest.mem[1], lastGuest.ptr)
    ELSE lastGuest.before[1]

\* The bytes of the struct at p without its padding.
FieldBytes(p) == {p, p + 2, p + 3, p + 4, p + 5}

\* C19: GuestPtr::write(f) reads from guest memory only when the cache is
\* empty, applies f to the cached value in place, and then writes exactly
\* the mutated value, field by field, at the address of the pointer.
C19_WriteFlushesMutated ==
    (lastGuest.op = "write" /\ lastGuest.ret # "panic") =>
        /\ lastGuest.log =
              (IF lastGuest.before = <<>>
               THEN ReadsUpTo(lastGuest.mem[1], lastGuest.ptr, 3) ELSE <<>>)
              \o AllWrites(Mutated(lastGuest.f, InnerOfWrite), lastGuest.ptr)
        /\ gpCache = <<Mutated(lastGuest.f, InnerOfWrite)>>
        /\ gpPointer = lastGuest.ptr
        /\ (\A k \in 1..Len(lastGuest.log) : ~TransferFailed(k))
              => TestAt(gMem, lastGuest.ptr) = Mutated(lastGuest.f, InnerOfWrite)
        /\ \A a \in Addrs \ FieldBytes(lastGuest.ptr) : gMem[a] = lastGuest.mem[1][a]

\* A write through a pointer other than 0 with an empty cache that read the
\* value, changed it and flushed it to the memory.
C19_Witness ==
    /\ lastGuest.op = "write"
    /\ lastGuest.ret = "Ok"
    /\ lastGuest.ptr = 2
    /\ lastGuest.before = <<>>
    /\ Len(lastGuest.log) = 8
    /\ Mutated(lastGuest.f, InnerOfWrite) # InnerOfWrite
    /\ TestAt(gMem, 2) = Mutated(lastGuest.f, InnerOfWrite)

\* C20: if the flush of GuestPtr::write fails, write reports the failure and
\* the cache still holds the mutated value.
C20_FlushFailureReported ==
    (/\ lastGuest.op = "write"
     /\ lastGuest.ret # "panic"
     /\ \E k \in 1..Len(lastGuest.log) :
           lastGuest.log[k].rw = "write" /\ TransferFailed(k))
        => /\ lastGuest.ret = "Err"
           /\ gpCache = <<Mutated(lastGuest.f, InnerOfWrite)>>

\* C21: read() on a GuestPtr whose cache is populated issues no memory
\* transfer and returns the cached value, whatever the memory holds by then;
\* a read() that directly follows a successful read() makes no transfer and
\* gives the same value.
C21_ReadIdempotent ==
    /\ []((lastGuest.op = "read" /\ lastGuest.before # <<>>) =>
             (/\ lastGuest.log = <<>>
              /\ lastGuest.ret = "Ok"
              /\ lastGuest.val = lastGuest.before
              /\ gpCache = lastGuest.before))
    /\ [][(/\ lastGuest.op = "read" /\ lastGuest.ret = "Ok"
           /\ lastGuest'.op = "read")
             => (/\ lastGuest'.log = <<>>
                 /\ lastGuest'.ret = "Ok"
                 /\ lastGuest'.val = lastGuest.val)]_vars

\* A read() with a cached value while the memory at the pointer holds
\* another value.
C21_Witness ==
    /\ lastGuest.op = "read"
    /\ lastGuest.before # <<>>
    /\ FieldMapped(lastGuest.ptr, 1) /\ FieldMapped(lastGuest.ptr, 2)
    /\ FieldMapped(lastGuest.ptr, 3)
    /\ TestAt(gMem, lastGuest.ptr) # lastGuest.before[1]

\* The methods that build a pointer.
Builders == {"from", "clone", "offset", "offset_bytes", "cast"}

\* C22: the cache of a GuestPtr is non-empty only after a successful read on
\* that pointer and before a later clear_cache: a pointer built by from,
\* clone, offset, offset_bytes or cast has an empty cache (clone and cast
\* keep the address), the cache is empty after clear_cache, a failed read
\* leaves it empty, and it becomes non-empty only by a successful read.
C22_CacheOnlyAfterRead ==
    /\ []((lastGuest.op \in Builders \cup {"clear_cache"}) => gpCache = <<>>)
    /\ []((/\ lastGuest.op \in {"read", "update", "write"}
           /\ lastGuest.ret \in {"Err", "panic"}
           /\ lastGuest.before = <<>>) => gpCache = <<>>)
    /\ [][(/\ (lastGuest'.op \in {"clone", "cast"} /\ lastGuest' # lastGuest)
                 => (gpPointer' = gpPointer)
           /\ (gpCache = <<>> /\ gpCache' # <<>>)
                 => (/\ lastGuest'.op \in {"read", "update", "write"}
                     /\ lastGuest'.ptr = gpPointer
                     /\ gpPointer' = gpPointer
                     /\ Len(lastGuest'.log) >= 4
                     /\ \A k \in 1..4 : /\ lastGuest'.log[k].rw = "read"
                                         /\ lastGuest'.log[k].status = "MemTxOk"))]_vars

\* A cast of a pointer whose cache held a value.
C22_Witness ==
    /\ lastGuest.op = "cast"
    /\ lastGuest.before # <<>>
    /\ gpCache = <<>>

\* The bytes the memory held at the addresses of a transfer before the last
\* guest call.
BytesBefore(t) == [k \in 1..t.len |-> lastGuest.mem[1][t.addr + k - 1]]

\* The transfers of the last call that were reads and those that were writes.
ReadsOfLast == SelectSeq(lastGuest.log, LAMBDA t : t.rw \in {"read", "read_phys"})
WritesOfLast == SelectSeq(lastGuest.log, LAMBDA t : t.rw \in {"write", "write_phys"})

\* C23: for every primitive and every composite, reading a value at an
\* address and writing the decoded value back to the address reproduces the
\* bytes that were there, for both byte orders and on the virtual and the
\* physical path: the write transfers go to the addresses that were read, on
\* the same path, with the bytes the memory held, and the memory is the same
\* after as before.
C23_RoundTrip ==
    (lastGuest.op = "round_trip" /\ lastGuest.ret = "Ok") =>
        /\ gMem = lastGuest.mem[1]
        /\ Len(ReadsOfLast) >= 1
        /\ Len(WritesOfLast) = Len(ReadsOfLast)
        /\ lastGuest.log = ReadsOfLast \o WritesOfLast
        /\ \A k \in 1..Len(WritesOfLast) :
              /\ WritesOfLast[k].addr = ReadsOfLast[k].addr
              /\ WritesOfLast[k].len = ReadsOfLast[k].len
              /\ WritesOfLast[k].rw = (IF lastGuest.f.path = "virt" THEN "write"
                                       ELSE "write_phys")
              /\ ReadsOfLast[k].rw = (IF lastGuest.f.path = "virt" THEN "read"
                                      ELSE "read_phys")
              /\ WritesOfLast[k].status = "MemTxOk"
              /\ WritesOfLast[k].bytes = BytesBefore(WritesOfLast[k])

\* A round trip of a struct with a u32 field on the physical path of a
\* big-endian guest.
C23_Witness ==
    /\ lastGuest.op = "round_trip"
    /\ lastGuest.ret = "Ok"
    /\ ARCH_ENDIAN = "Big"
    /\ lastGuest.f.path = "phys"
    /\ lastGuest.f.ty.kind = "struct"
    /\ Len(tyFields) = 2
    /\ \E k \in 1..Len(WritesOfLast) : WritesOfLast[k].len = 4

\* The least multiple of a that is at least n.
AlignUp(n, a) == ((n + a - 1) \div a) * a

\* The bytes a field of the type takes.
SizeOf(ty) == IF ty.kind = "array" THEN ty.size * ty.n ELSE ty.size

\* Where field i of the struct starts and where it ends: each field at the
\* next offset aligned to its alignment, in declaration order.
RECURSIVE EndOf(_, _)
StartOf(fields, i) ==
    AlignUp(IF i = 1 THEN 0 ELSE EndOf(fields, i - 1), fields[i].align)
EndOf(fields, i) == StartOf(fields, i) + SizeOf(fields[i])

\* The greatest alignment of a field.
AlignOf(fields) ==
    CHOOSE a \in {fields[i].align : i \in DOMAIN fields} :
        \A i \in DOMAIN fields : fields[i].align <= a

\* The addresses of the transfers of a read or write of the struct at p.
RECURSIVE AddrsUpTo(_, _, _)
AddrsUpTo(fields, p, i) ==
    IF i = 0 THEN <<>>
    ELSE AddrsUpTo(fields, p, i - 1)
         \o (IF fields[i].kind = "array"
             THEN [k \in 1..fields[i].n |->
                     p + StartOf(fields, i) + (k - 1) * fields[i].size]
             ELSE <<p + StartOf(fields, i)>>)

\* C24: the guest layout of every composite type has size % align = 0, each
\* field at the next offset aligned to the field's alignment in declaration
\* order, and a size of the field sizes plus that padding, rounded up to the
\* alignment; a read and a write of the struct use these offsets.
C24_LayoutLaw ==
    /\ struct_layout(tyFields).size % struct_layout(tyFields).align = 0
    /\ struct_layout(tyFields).align = AlignOf(tyFields)
    /\ struct_layout(tyFields).size
          = AlignUp(EndOf(tyFields, Len(tyFields)), AlignOf(tyFields))
    /\ \A i \in DOMAIN tyFields : FieldOffset(tyFields, i) = StartOf(tyFields, i)
    /\ (/\ lastGuest.op = "round_trip" /\ lastGuest.ret = "Ok"
        /\ lastGuest.f.ty.kind = "struct") =>
           /\ [k \in 1..Len(ReadsOfLast) |-> ReadsOfLast[k].addr]
                 = AddrsUpTo(tyFields, lastGuest.ptr, Len(tyFields))
           /\ [k \in 1..Len(WritesOfLast) |-> WritesOfLast[k].addr]
                 = AddrsUpTo(tyFields, lastGuest.ptr, Len(tyFields))

\* A struct of a u8 followed by a u32 was read and written: the u32 is at
\* offset 4 and the size is 8.
C24_Witness ==
    /\ tyFields = <<U8, U32>>
    /\ struct_layout(tyFields) = [size |-> 8, align |-> 4]
    /\ FieldOffset(tyFields, 2) = 4
    /\ lastGuest.op = "round_trip" /\ lastGuest.ret = "Ok"
    /\ lastGuest.f.ty.kind = "struct"
    /\ ReadsOfLast[2].addr = lastGuest.ptr + 4

\* Whether the name of the last map_memory call holds a 0 byte.
NameHasNul == \E i \in DOMAIN lastGuest.f.name : lastGuest.f.name[i] = 0

\* C26 as stated: map_memory with a size that is not a multiple of PAGE_SIZE
\* returns UnalignedPageSize and does not make the native mapping call.
C26_UnalignedSizeIsTypedError ==
    (lastGuest.op = "map_memory" /\ lastGuest.f.size % 1024 # 0) =>
        (lastGuest.ret = "UnalignedPageSize" /\ lastGuest.log = <<>>)

\* C26: map_memory with a size that is not a multiple of PAGE_SIZE makes no
\* native mapping call and returns a typed error: UnalignedPageSize when the
\* name converts to a C string, and InvalidString, the error of the
\* conversion that comes first, when the name holds a 0 byte.
C26_UnalignedSizeAfterName ==
    (lastGuest.op = "map_memory" /\ lastGuest.f.size % 1024 # 0) =>
        /\ lastGuest.log = <<>>
        /\ lastGuest.ret = (IF NameHasNul THEN "InvalidString" ELSE "UnalignedPageSize")

\* map_memory of one byte more than a page under a name that converts.
C26_Witness ==
    /\ lastGuest.op = "map_memory"
    /\ lastGuest.f.size = 1025
    /\ ~NameHasNul /\ lastGuest.f.name # <<>>
    /\ lastGuest.ret = "UnalignedPageSize"

\* The status a native code stands for.
StatusOf(code) ==
    IF code = 0 THEN "MemTxOk"
    ELSE IF code = 1 THEN "MemTxError"
    ELSE IF code = 2 THEN "MemTxDecodeError"
    ELSE IF code = -1 THEN "GenericErrorRet"
    ELSE "Unknown"

\* Whether the transfer t of a round trip was within the memory.
InMemory(t) == \A a \in t.addr..(t.addr + t.len - 1) : a \in 0..(GuestMemSize - 1)

\* C27: the status of a native transfer is MemTxOk only when the native code
\* is the OK code; a code that the conversion does not know becomes Unknown,
\* never MemTxOk, and a read whose status is not MemTxOk, Unknown included,
\* is reported as a failure.
C27_UnknownIsNeverOk ==
    lastGuest.op = "round_trip" =>
        /\ \A k \in 1..Len(lastGuest.log) :
              lastGuest.log[k].status
                = StatusOf(IF InMemory(lastGuest.log[k]) THEN 0 ELSE lastGuest.f.fail)
        /\ (\E k \in 1..Len(ReadsOfLast) : ReadsOfLast[k].status # "MemTxOk")
              => (lastGuest.ret = "Err" /\ WritesOfLast = <<>>)

\* A read whose native transfer gave the code 3, which no status has.
C27_Witness ==
    /\ lastGuest.op = "round_trip"
    /\ lastGuest.f.fail = 3
    /\ \E k \in 1..Len(ReadsOfLast) : ReadsOfLast[k].status = "Unknown"
    /\ lastGuest.ret = "Err"

\* The steps of the last initialisation that are of one of the given kinds.
StepsOf(kinds) == SelectSeq(lastInit.steps, LAMBDA s : s[1] \in kinds)

\* C25: a completed initialisation (init_plugin, or Panda::run up to panda_run)
\* has installed every statically registered callback, then run every PPP-setup
\* thunk, then run the user's init code and the queued after-init functions, each
\* once and in that order.
C25_InitOrder ==
    (lastInit.op \in {"init_plugin", "Panda::run"} /\ lastInit.ret = "Ok") =>
        /\ StepsOf({"panda_register_callback", "PPPCallbackSetup"})
             = inventory_iter("panda_register_callback", inventory.Callback)
                 \o inventory_iter("PPPCallbackSetup", inventory.PPPCallbackSetup)
        /\ \E n \in 0..Len(lastInit.steps) :
             /\ \A i \in 1..n : lastInit.steps[i][1] \notin {"init", "after_init"}
             /\ \A i \in (n + 1)..Len(lastInit.steps) :
                  lastInit.steps[i][1] \notin {"panda_register_callback", "PPPCallbackSetup"}
        /\ Len(StepsOf({"init"})) = IF lastInit.op = "init_plugin" THEN 1 ELSE 0

\* A plugin whose inventory holds a PPP-setup thunk has been initialised.
C25_PluginWithThunk ==
    /\ lastInit.op = "init_plugin"
    /\ inventory.PPPCallbackSetup > 0
    /\ inventory.Callback > 0

\* C28: whichever threads call Callback::new and in whatever order, each handle
\* returned is greater than every handle returned before it (so all are distinct),
\* and the call makes no native call and leaves the registry as it was.
C28_HandlesDistinctAndIncreasing ==
    /\ [](\A i, j \in 1..Len(cbHandles) : i < j => cbHandles[i].handle < cbHandles[j].handle)
    /\ [][(cbHandles' # cbHandles =>
             /\ Len(cbHandles') = Len(cbHandles) + 1
             /\ UNCHANGED <<CALLBACKS, nativeCbs, nativeCall, cbHeap>>)]_vars

\* Two threads have each been given a handle while a closure is installed.
C28_Witness ==
    /\ Len(cbHandles) = 2
    /\ cbHandles[1].thread # cbHandles[2].thread
    /\ CALLBACKS # {}

\* The injector future at place k of thread q's queue, awaiting a return value
\* before the step, holds one after it.
Received(q, k) ==
    /\ k \in DOMAIN INJECTORS[q] /\ k \in DOMAIN INJECTORS'[q]
    /\ INJECTORS'[q][k].uid = INJECTORS[q][k].uid
    /\ INJECTORS[q][k].cell = Unset
    /\ INJECTORS'[q][k].cell \notin {Unset, NoCell}

\* Thread t returns from a syscall in the step.
Returns(t) == thr[t].st = "kernel" /\ thr'[t].st # "kernel"

\* C29: a return value captured at a syscall return reaches only the syscall()
\* future of an injector of the thread that returned, also when the threads share
\* an address-space id.
C29_ReturnValueStaysOnThread ==
    [][\A q \in Tids : \A k \in 1..(MaxThreadInjectors + 1) :
          Received(q, k) => Returns(q)]_vars

\* Thread t is in the syscall that the injector at the head of its queue injected
\* and whose return value that injector awaits.
InInjectedSyscall(t) ==
    /\ thr[t].st = "kernel"
    /\ thr[t].by # 0
    /\ INJECTORS[t] # <<>>
    /\ INJECTORS[t][1].uid = thr[t].by
    /\ INJECTORS[t][1].ip = thr[t].ip
    /\ INJECTORS[t][1].cell = Unset

\* C30: whatever syscall entries and returns of other threads happen while a
\* thread is in an injected syscall, the return of that syscall hands the kernel's
\* return value to the injector that awaits it and sends the thread back to the
\* syscall instruction, where the injector is polled again.
C30_InjectorGetsItsReturn ==
    [][\A t \in Tids :
          (InInjectedSyscall(t) /\ Returns(t)) =>
              /\ INJECTORS'[t] # <<>>
              /\ INJECTORS'[t][1].cell = KernelRet(thr[t].sysno)
              /\ thr'[t].st = "user"]_vars

\* is_fork_child of the sys_return hook, for the thread t that returns.
IsForkChild(t) == \E f \in FORKING_THREADS \ {t} : thr[f].pid = thr[t].ppid

\* The sys_return hooks left thread t as the kernel returned it, and every queue
\* and return-value slot as it was.
HookLeftAlone(t) ==
    /\ thr'[t].st = "after"
    /\ thr'[t].pc = thr[t].pc
    /\ thr'[t].regs = KernelReturn(Eng, t).thr[t].regs
    /\ INJECTORS' = INJECTORS
    /\ RET_SLOT' = RET_SLOT

\* No future that was queued before the step has been given a return value.
NoCapture ==
    /\ RET_SLOT' = RET_SLOT
    /\ \A q \in Tids : SubSeq(INJECTORS'[q], 1, Len(INJECTORS[q])) = INJECTORS[q]

\* C31 as stated: a syscall return on a thread that is not the one marked as the
\* active injection target leaves its registers, its program counter and every
\* pending return-value slot unchanged.
C31_OnlyTargetThreadIsTouched ==
    [][\A t \in Tids :
          (Returns(t) /\ CURRENT_INJECTOR_THREAD # t) => HookLeftAlone(t)]_vars

\* C31: a syscall return on a thread that is neither the active injection target
\* nor the child of a forking thread leaves its registers, its program counter
\* and every pending return-value slot unchanged; the return seen on the child of
\* a forking thread captures no return value.
C31_OnlyTargetOrForkChildIsTouched ==
    [][\A t \in Tids :
          /\ (Returns(t) /\ CURRENT_INJECTOR_THREAD # t /\ ~IsForkChild(t))
                => HookLeftAlone(t)
          /\ (Returns(t) /\ IsForkChild(t)) => NoCapture]_vars

\* The return seen on the fork child, which is not the active target, has queued
\* the child injector and restarted the child, and the injector of the forking
\* thread still awaits the return of its vfork.
C31_Witness ==
    /\ CURRENT_INJECTOR_THREAD \in {1, 2}
    /\ INJECTORS[CURRENT_INJECTOR_THREAD] # <<>>
    /\ INJECTORS[CURRENT_INJECTOR_THREAD][1].cell = Unset
    /\ thr[CURRENT_INJECTOR_THREAD].sysno = VFORK
    /\ thr[Child].st = "user"
    /\ INJECTORS[Child] # <<>>
    /\ INJECTORS[Child][1].child /\ INJECTORS[Child][1].cell = NoCell

\* C32: when the return of an injected syscall sends the thread back, it sends it
\* to the syscall address that was passed to the run_injector call that queued the
\* injector being run, on every thread.
C32_RewindsToOwnSyscall ==
    [][\A t \in Tids :
          (/\ InInjectedSyscall(t) /\ Returns(t)
           /\ ~INJECTORS[t][1].child
           /\ thr'[t].st = "user")
              => thr'[t].pc = INJECTORS[t][1].pc]_vars

\* The queue of thread t is polled empty in the step, which removes t's entry.
QueueDrained(t) ==
    /\ INJECTORS[t] # <<>>
    /\ INJECTORS'[t] = <<>>
    /\ ~panicked'

C34_AtMostOneHookPair == Len(hooks) <= 1

\* C35: the return of a syscall injected by an adopted child injector, on the
\* thread that is still marked as the active target, hands the kernel's return
\* value to that injector and sends the thread back to be polled again, also
\* while the parent is still recorded as forking.
C35_ChildInjectorGetsItsReturn ==
    [][\A c \in Tids :
          (/\ InInjectedSyscall(c) /\ Returns(c)
           /\ INJECTORS[c][1].child
           /\ CURRENT_INJECTOR_THREAD = c)
              => /\ INJECTORS'[c] # <<>>
                 /\ INJECTORS'[c][1].cell = KernelRet(thr[c].sysno)
                 /\ thr'[c].st = "user"]_vars

\* The sys_return hook queues the stashed child injector for thread q in the step.
Adopted(q) ==
    /\ Len(INJECTORS'[q]) = Len(INJECTORS[q]) + 1
    /\ INJECTORS'[q][Len(INJECTORS'[q])].child

\* C36: a child injector passed to fork is queued only for the thread that the
\* injected fork created, and it leaves the stash only by being adopted.
C36_AdoptedByForkedChildOnly ==
    [][/\ \A q \in Tids :
             Adopted(q) =>
                 /\ CHILD_INJECTOR # <<>>
                 /\ CHILD_INJECTOR' = <<>>
                 /\ thr[CHILD_INJECTOR[1].parent].kid = q
       /\ (CHILD_INJECTOR # <<>> /\ CHILD_INJECTOR' # CHILD_INJECTOR)
             => \E q \in Tids : Adopted(q)]_vars

\* ------------------------------------------------------------------------
\* The entries of the export site that were added through the PppCallback
\* handle: those of the closure trampoline, which add_callback never uses.
HandleEntries(list) == {i \in DOMAIN list : list[i].f = "closure"}

\* The install method, enable() or disable() of the handle returns.
PppReturns(op) == stack # <<>> /\ Top.op = op /\ stack' = Pop

\* C37: whatever closures are installed through a PppCallback handle and
\* however it is enabled and disabled, the export site never holds more than
\* one entry of that handle; it holds one when an install or an enable() of
\* the bound handle returns and none when a disable() returns.
C37_OneEntryPerHandle ==
    [][/\ Cardinality(HandleEntries(siteCALLBACKS')) <= 1
       /\ PppReturns("ppp_install")
             => Cardinality(HandleEntries(siteCALLBACKS')) = 1
       /\ (PppReturns("ppp_enable") /\ pppCALLBACKS[Top.id].present)
             => Cardinality(HandleEntries(siteCALLBACKS')) = 1
       /\ PppReturns("ppp_disable")
             => Cardinality(HandleEntries(siteCALLBACKS')) = 0]_vars

\* ------------------------------------------------------------------------
\* The entries of list equal to (f, c) that stand before position i.
MatchesBefore(list, f, c, i) == {j \in Matches(list, f, c) : j < i}

\* C38: after remove_callback_with_context(f, c) no entry equal to (f, c) is
\* left in the list, however many times the pair had been added, and every
\* other entry is still there, moved up by the number of removed entries that
\* stood before it, so that the other entries keep their relative order.
C38_RemoveTakesAllAndKeepsOrder ==
    lastRemove.valid =>
        LET was == lastRemove.before
            gone == Matches(was, lastRemove.f, lastRemove.c)
        IN /\ Matches(siteCALLBACKS, lastRemove.f, lastRemove.c) = {}
           /\ Len(siteCALLBACKS) = Len(was) - Cardinality(gone)
           /\ \A i \in DOMAIN was \ gone :
                 siteCALLBACKS[i - Cardinality(MatchesBefore(was, lastRemove.f,
                                                             lastRemove.c, i))] = was[i]

\* A remove of a pair that had been added twice, with another subscriber
\* between the two entries: both are gone and the other one is left.
C38_Witness ==
    /\ lastRemove.valid
    /\ \E i, j, k \in DOMAIN lastRemove.before :
          /\ i < j /\ j < k
          /\ {i, k} \subseteq Matches(lastRemove.before, lastRemove.f, lastRemove.c)
          /\ j \notin Matches(lastRemove.before, lastRemove.f, lastRemove.c)
    /\ Len(siteCALLBACKS) = 1

\* ------------------------------------------------------------------------
\* C39: a Panda::run called while another Panda::run is in progress panics
\* before it has registered any callback with the native side and before it
\* has called panda_init or panda_run.
C39_SecondRunPanicsFirst ==
    [][(LIBRARY_STARTED /\ lastInit' # lastInit /\ lastInit'.op = "Panda::run") =>
          /\ lastInit'.ret = "panic"
          /\ \A i \in DOMAIN lastInit'.steps :
                lastInit'.steps[i][1] \notin {"panda_register_callback", "panda_init",
                                              "panda_run"}]_vars

\* ------------------------------------------------------------------------
\* A step pushes f on AFTER_INIT_FUNCS.
PushedAfterInit(f) == AFTER_INIT_FUNCS' = Append(AFTER_INIT_FUNCS, f)

\* A step in which Panda::run passes its LIBRARY_STARTED test.
RunStarts == ~LIBRARY_STARTED /\ LIBRARY_STARTED'

\* The steps Panda::run has taken put the queued functions fs, each once and
\* in order, after panda_init and the PPP-setup thunks and before panda_run.
RunsQueued(steps, fs) ==
    /\ SelectSeq(steps, LAMBDA s : s[1] = "after_init") = run_funcs(fs)
    /\ \A i, j \in DOMAIN steps :
          steps[i][1] = "after_init" =>
             /\ steps[j][1] \in {"panda_init", "PPPCallbackSetup"} => j < i
             /\ steps[j][1] = "panda_run" => i < j

\* C40: no function given to Panda::run_after_init is lost or run twice.  A
\* function is queued only while libpanda has not started; the queue loses
\* nothing but to the Panda::run that starts, which empties it and runs its
\* functions once each, in the order they were queued, after panda_init and
\* the PPP-setup thunks and before panda_run; and a function given once
\* libpanda has started is run at once and not queued.
C40_AfterInitRunsOnce ==
    [][/\ \A f \in AfterInitFuncs : PushedAfterInit(f) => ~LIBRARY_STARTED
       /\ RunStarts =>
             /\ AFTER_INIT_FUNCS' = <<>>
             /\ RunsQueued(lastInit'.steps, AFTER_INIT_FUNCS)
       /\ AFTER_INIT_FUNCS' # AFTER_INIT_FUNCS =>
             RunStarts \/ \E f \in AfterInitFuncs : PushedAfterInit(f)
       /\ (lastInit' # lastInit /\ lastInit'.op = "run_after_init") =>
             /\ ~libpanda \/ LIBRARY_STARTED
             /\ \E f \in AfterInitFuncs : lastInit'.steps = run_funcs(<<f>>)
             /\ AFTER_INIT_FUNCS' = AFTER_INIT_FUNCS]_vars
====
